---- MODULE Spec2Model ----
(***************************************************************************)
(* A model of the LLcraft VM: the value stack (stack.rs), the page memory  *)
(* (memory.rs), the session store (session.rs) and the orchestrator loop   *)
(* (agent.rs) that drives the interpreter.                                 *)
(*                                                                         *)
(* Strings (page ids, session ids, string contents) are sequences of       *)
(* one-character strings, so that formatting and sanitizing act on         *)
(* characters.  JSON values are tagged tuples.                             *)
(***************************************************************************)
EXTENDS Integers, Sequences, FiniteSets, Bags, TLC

(***************************************************************************)
(* JSON values (serde_json::Value) and their compact serialization length. *)
(***************************************************************************)
Null == <<"null">>
Bool(b) == <<"bool", b>>
Num(n) == <<"num", n>>
Str(s) == <<"str", s>>
Arr(items) == <<"arr", items>>
Obj(pairs) == <<"obj", pairs>>

RECURSIVE DecimalDigits(_)
DecimalDigits(n) ==
    LET d == <<"0", "1", "2", "3", "4", "5", "6", "7", "8", "9">>
    IN IF n < 10 THEN <<d[n + 1]>>
       ELSE Append(DecimalDigits(n \div 10), d[(n % 10) + 1])

RECURSIVE JsonLen(_)
RECURSIVE JsonSeqLen(_, _)
JsonSeqLen(items, isObj) ==
    IF Len(items) = 0 THEN 0
    ELSE (IF isObj
          THEN Len(items[1][1]) + 3 + JsonLen(items[1][2])
          ELSE JsonLen(items[1]))
         + (IF Len(items) > 1 THEN 1 ELSE 0)
         + JsonSeqLen(Tail(items), isObj)
JsonLen(v) ==
    CASE v[1] = "null" -> 4
      [] v[1] = "bool" -> IF v[2] THEN 4 ELSE 5
      [] v[1] = "num" -> Len(DecimalDigits(v[2]))
      [] v[1] = "str" -> Len(v[2]) + 2
      [] v[1] = "arr" -> 2 + JsonSeqLen(v[2], FALSE)
      [] v[1] = "obj" -> 2 + JsonSeqLen(v[2], TRUE)

(***************************************************************************)
(* Stack (stack.rs).  data[1] is the bottom, data[Len(data)] the top.      *)
(* Every operation returns the new data, the error kind ("Ok" on success)  *)
(* and the value it hands back (Null when it returns no value).            *)
(***************************************************************************)
MAX_STACK_SIZE == 256

StackRet(data, err, val) == [data |-> data, err |-> err, val |-> val]

push_unchecked(data, value) == StackRet(Append(data, value), "Ok", Null)

push(data, value) ==
    IF Len(data) >= MAX_STACK_SIZE
    THEN StackRet(data, "StackOverflow", Null)
    ELSE StackRet(Append(data, value), "Ok", Null)

pop_bottom(data) ==
    IF Len(data) = 0
    THEN StackRet(data, "StackUnderflow", Null)
    ELSE StackRet(Tail(data), "Ok", Head(data))

pop(data) ==
    IF Len(data) = 0
    THEN StackRet(data, "StackUnderflow", Null)
    ELSE StackRet(SubSeq(data, 1, Len(data) - 1), "Ok", data[Len(data)])

peek(data) ==
    IF Len(data) = 0
    THEN StackRet(data, "StackUnderflow", Null)
    ELSE StackRet(data, "Ok", data[Len(data)])

peek_at(data, depth) ==
    IF depth >= Len(data)
    THEN StackRet(data, "StackUnderflow", Null)
    ELSE StackRet(data, "Ok", data[Len(data) - depth])

dup(data) ==
    LET value == peek(data)
    IN IF value.err # "Ok" THEN value ELSE push(data, value.val)

dup_n(data, n) ==
    LET value == peek_at(data, n)
    IN IF value.err # "Ok" THEN value ELSE push(data, value.val)

SwapIdx(data, i, j) ==
    [k \in 1..Len(data) |-> IF k = i THEN data[j] ELSE IF k = j THEN data[i] ELSE data[k]]

swap(data) ==
    IF Len(data) < 2
    THEN StackRet(data, "StackUnderflow", Null)
    ELSE StackRet(SwapIdx(data, Len(data), Len(data) - 1), "Ok", Null)

swap_n_zero_ok(data, n) ==
    IF Len(data) <= n
    THEN StackRet(data, "StackUnderflow", Null)
    ELSE StackRet(SwapIdx(data, Len(data), Len(data) - n), "Ok", Null)

swap_n(data, n) ==
    IF n = 0 \/ Len(data) <= n
    THEN StackRet(data, "StackUnderflow", Null)
    ELSE StackRet(SwapIdx(data, Len(data), Len(data) - n), "Ok", Null)

\* slice.rotate_right(1) on data[start..]: the last element moves to the front.
RotateRight1(data, start) ==
    [k \in 1..Len(data) |->
        IF k < start THEN data[k]
        ELSE IF k = start THEN data[Len(data)]
        ELSE data[k - 1]]

rot_left(data, n) ==
    IF n > Len(data) \/ n = 0
    THEN StackRet(data, "StackUnderflow", Null)
    ELSE StackRet([k \in 1..Len(data) |->
                      IF k <= Len(data) - n THEN data[k]
                      ELSE IF k = Len(data) THEN data[Len(data) - n + 1]
                      ELSE data[k + 1]], "Ok", Null)

rot(data, n) ==
    IF n > Len(data) \/ n = 0
    THEN StackRet(data, "StackUnderflow", Null)
    ELSE StackRet(RotateRight1(data, Len(data) - n + 1), "Ok", Null)

drop_n(data, n) ==
    IF n > Len(data)
    THEN StackRet(data, "StackUnderflow", Null)
    ELSE StackRet(SubSeq(data, 1, Len(data) - n), "Ok", Null)

stack_clear(data) == StackRet(<<>>, "Ok", Null)

(***************************************************************************)
(* usize arithmetic.  A usize outside 0..2^63 is represented by the        *)
(* negative integer congruent to it modulo 2^64, so a subtraction that     *)
(* wraps (overflow checks off) yields a negative representative.  checked  *)
(* tells whether the build has overflow checks on (debug: the subtraction  *)
(* panics) or off (release: it wraps).                                     *)
(***************************************************************************)
UsizeGt(a, b) == IF (a < 0) = (b < 0) THEN a > b ELSE a < 0

UsizeSub(a, b, checked) ==
    IF UsizeGt(b, a) /\ checked
    THEN [panic |-> TRUE, v |-> a]
    ELSE [panic |-> FALSE, v |-> a - b]

UsizeSaturatingSub(a, b) == IF UsizeGt(b, a) THEN 0 ELSE a - b

(***************************************************************************)
(* Memory (memory.rs).  A Memory is [pages, total_tokens, max_tokens],     *)
(* pages the set of MemoryPage values of the map, which is keyed by their  *)
(* id.  now is the value of current_timestamp() at the call.  Every        *)
(* operation returns the memory left, the error kind ("Ok" on success,     *)
(* "Panic" when the call panics) and the value it hands back.              *)
(***************************************************************************)
MAX_PAGES == 1024
DEFAULT_MAX_TOKENS == 128000

NoLabel == <<"None">>

estimate_tokens(value) == (JsonLen(value) \div 4) + 1

MemoryPage_new(id, content, now) ==
    [id |-> id, content |-> content, size_tokens |-> estimate_tokens(content),
     dirty |-> TRUE, label |-> NoLabel, created_at |-> now, accessed_at |-> now]

MemoryPage_empty(id, now) == MemoryPage_new(id, Null, now)

set_content(page, content, now) ==
    [page EXCEPT !.content = content,
                 !.size_tokens = estimate_tokens(content),
                 !.dirty = TRUE,
                 !.accessed_at = now]

touch(page, now) == [page EXCEPT !.accessed_at = now]

Memory_new == [pages |-> {}, total_tokens |-> 0, max_tokens |-> DEFAULT_MAX_TOKENS]

MemRet(mem, err, val) == [mem |-> mem, err |-> err, val |-> val]

PageCount(mem) == Cardinality(mem.pages)
has_page(mem, id) == \E p \in mem.pages : p.id = id
page_ids(mem) == {p.id : p \in mem.pages}

\* pages.get(id), for an id that is held
get(mem, id) == CHOOSE p \in mem.pages : p.id = id

\* pages.insert(page.id, page)
Insert(pages, page) == {p \in pages : p.id # page.id} \cup {page}

\* pages.remove(id)
Remove(pages, id) == {p \in pages : p.id # id}

get_mut(mem, id, now) ==
    IF ~has_page(mem, id)
    THEN MemRet(mem, "None", Null)
    ELSE MemRet([mem EXCEPT !.pages = Insert(@, touch(get(mem, id), now))],
                "Ok", Str(id))

load(mem, id, now) ==
    IF ~has_page(mem, id)
    THEN MemRet(mem, "PageNotFound", Null)
    ELSE MemRet([mem EXCEPT !.pages = Insert(@, touch(get(mem, id), now))],
                "Ok", get(mem, id).content)

store(mem, id, content, now, checked) ==
    IF has_page(mem, id)
    THEN LET old_tokens == get(mem, id).size_tokens
             page == set_content(get(mem, id), content, now)
             touched == [mem EXCEPT !.pages = Insert(@, page)]
             diff == UsizeSub(mem.total_tokens, old_tokens, checked)
         IN IF diff.panic
            THEN MemRet(touched, "Panic", Null)
            ELSE MemRet([touched EXCEPT !.total_tokens = diff.v + page.size_tokens],
                        "Ok", Null)
    ELSE IF PageCount(mem) >= MAX_PAGES
    THEN MemRet(mem, "PageOverflow", Null)
    ELSE LET page == MemoryPage_new(id, content, now)
         IN MemRet([mem EXCEPT !.pages = Insert(@, page),
                               !.total_tokens = @ + page.size_tokens], "Ok", Null)

store_page(mem, page, checked) ==
    IF ~has_page(mem, page.id) /\ PageCount(mem) >= MAX_PAGES
    THEN MemRet(mem, "PageOverflow", Null)
    ELSE LET old_tokens == IF has_page(mem, page.id)
                           THEN get(mem, page.id).size_tokens ELSE 0
             diff == UsizeSub(mem.total_tokens, old_tokens, checked)
         IN IF diff.panic
            THEN MemRet(mem, "Panic", Null)
            ELSE MemRet([mem EXCEPT !.pages = Insert(@, page),
                                    !.total_tokens = diff.v + page.size_tokens],
                        "Ok", Null)

\* format!("page_{}", n)
PageIdOf(n) == <<"p", "a", "g", "e", "_">> \o DecimalDigits(n)

alloc(mem, label, now) ==
    IF PageCount(mem) >= MAX_PAGES
    THEN MemRet(mem, "PageOverflow", Null)
    ELSE LET id == PageIdOf(PageCount(mem))
             page == [MemoryPage_empty(id, now) EXCEPT !.label = label]
         IN MemRet([mem EXCEPT !.pages = Insert(@, page),
                               !.total_tokens = @ + page.size_tokens], "Ok", Str(id))

free(mem, id) ==
    IF ~has_page(mem, id)
    THEN MemRet(mem, "PageNotFound", Null)
    ELSE MemRet([mem EXCEPT !.pages = Remove(@, id),
                            !.total_tokens =
                                UsizeSaturatingSub(@, get(mem, id).size_tokens)],
                "Ok", Null)

copy(mem, src, dst, now, checked) ==
    IF ~has_page(mem, src)
    THEN MemRet(mem, "PageNotFound", Null)
    ELSE store(mem, dst, get(mem, src).content, now, checked)

mem_clear(mem) == MemRet([mem EXCEPT !.pages = {}, !.total_tokens = 0], "Ok", Null)

\* The ids min_by_key(accessed_at) can return: HashMap iteration order decides
\* among the pages that share the least accessed_at.
LruIds(mem) ==
    {p.id : p \in {q \in mem.pages :
                      \A other \in mem.pages : q.accessed_at <= other.accessed_at}}

\* The outcomes of evict_to_limit, one per order in which ties are resolved.
RECURSIVE EvictFrom(_, _, _)
EvictFrom(mem, target_tokens, evicted) ==
    IF UsizeGt(mem.total_tokens, target_tokens) /\ mem.pages # {}
    THEN UNION {EvictFrom(free(mem, id).mem, target_tokens, Append(evicted, id)) :
                    id \in LruIds(mem)}
    ELSE {MemRet(mem, "Ok", evicted)}

evict_to_limit(mem, target_tokens) == EvictFrom(mem, target_tokens, <<>>)

\* pages_by_lru, as ids: the pages, which the HashMap yields in the order
\* iter, stably sorted by accessed_at.
pages_by_lru(mem, iter) ==
    LET pos(id) == CHOOSE i \in 1..Len(iter) : iter[i] = id
        before(a, b) ==
            \/ get(mem, a).accessed_at < get(mem, b).accessed_at
            \/ /\ get(mem, a).accessed_at = get(mem, b).accessed_at
               /\ pos(a) < pos(b)
        rank(id) == Cardinality({other \in page_ids(mem) : before(other, id)})
    IN [k \in 1..Len(iter) |-> CHOOSE id \in page_ids(mem) : rank(id) = k - 1]

\* The outcome of evict_to_limit when the HashMap yields the pages in the
\* order iter: min_by_key returns the first of the least pages, and a
\* removal leaves the order of the other pages as it was.
RECURSIVE EvictInOrder(_, _, _, _)
EvictInOrder(mem, target_tokens, iter, evicted) ==
    IF UsizeGt(mem.total_tokens, target_tokens) /\ mem.pages # {}
    THEN LET first == CHOOSE i \in 1..Len(iter) :
                         /\ iter[i] \in LruIds(mem)
                         /\ \A j \in 1..(i - 1) : iter[j] \notin LruIds(mem)
         IN EvictInOrder(free(mem, iter[first]).mem, target_tokens,
                         SubSeq(iter, 1, first - 1) \o SubSeq(iter, first + 1, Len(iter)),
                         Append(evicted, iter[first]))
    ELSE MemRet(mem, "Ok", evicted)

\* Sum of size_tokens over the pages held.
SumSizeTokens(mem) == BagCardinality([p \in mem.pages |-> p.size_tokens])

(***************************************************************************)
(* Session store (session.rs).  A Session is [metadata, page_index,        *)
(* trace_summary, active_memory]; page_index is a function from page id to *)
(* PageIndex.  An absent Option<String> is <<"None">>, which no string     *)
(* equals since the elements of a string are single characters.            *)
(***************************************************************************)
MAX_TRACE_ENTRIES == 50
SUMMARY_CHARS == 100

NoSummary == <<"None">>

Take(s, n) == SubSeq(s, 1, IF Len(s) < n THEN Len(s) ELSE n)

Ellipsis == <<".", ".", ".">>

\* keys.join(", ") over the first n members of an object
RECURSIVE JoinKeys(_, _)
JoinKeys(pairs, n) ==
    IF n = 0 \/ Len(pairs) = 0 THEN <<>>
    ELSE IF n = 1 \/ Len(pairs) = 1 THEN pairs[1][1]
    ELSE pairs[1][1] \o <<",", " ">> \o JoinKeys(Tail(pairs), n - 1)

\* format!("{:?}", value) for null, booleans and numbers
DebugValue(v) ==
    CASE v[1] = "null" -> <<"N", "u", "l", "l">>
      [] v[1] = "bool" ->
            <<"B", "o", "o", "l", "(">>
            \o (IF v[2] THEN <<"t", "r", "u", "e">> ELSE <<"f", "a", "l", "s", "e">>)
            \o <<")">>
      [] v[1] = "num" ->
            <<"N", "u", "m", "b", "e", "r", "(">> \o DecimalDigits(v[2]) \o <<")">>

auto_summarize(page) ==
    LET c == page.content
    IN CASE c[1] = "str" ->
              IF Len(c[2]) > SUMMARY_CHARS
              THEN Take(c[2], SUMMARY_CHARS) \o Ellipsis
              ELSE Take(c[2], SUMMARY_CHARS)
         [] c[1] = "obj" ->
              <<"O", "b", "j", "e", "c", "t", " ", "w", "i", "t", "h", " ",
                "k", "e", "y", "s", ":", " ">> \o JoinKeys(c[2], 5)
         [] c[1] = "arr" ->
              <<"A", "r", "r", "a", "y", " ", "w", "i", "t", "h", " ">>
              \o DecimalDigits(Len(c[2])) \o <<" ", "i", "t", "e", "m", "s">>
         [] OTHER -> DebugValue(c)

\* #[derive(Default)] of Memory
Memory_default == [pages |-> {}, total_tokens |-> 0, max_tokens |-> 0]

Session_new(id, task, now) ==
    [metadata |-> [id |-> id, task |-> task, created_at |-> now, updated_at |-> now,
                   total_steps |-> 0, llm_calls |-> 0, status |-> "Active"],
     page_index |-> <<>>,
     trace_summary |-> <<>>,
     active_memory |-> Memory_new]

RECURSIVE HexDigits(_)
HexDigits(n) ==
    LET d == <<"0", "1", "2", "3", "4", "5", "6", "7",
               "8", "9", "a", "b", "c", "d", "e", "f">>
    IN IF n < 16 THEN <<d[n + 1]>>
       ELSE Append(HexDigits(n \div 16), d[(n % 16) + 1])

\* format!("session_{:x}", ts), ts the time in milliseconds
generate_id(millis) == <<"s", "e", "s", "s", "i", "o", "n", "_">> \o HexDigits(millis)

index_page(session, page, summary) ==
    LET text == IF summary = NoSummary THEN auto_summarize(page) ELSE summary
        entry == [id |-> page.id, summary |-> text, tokens |-> page.size_tokens,
                  content_type |-> page.label, created_at |-> page.created_at,
                  accessed_at |-> page.accessed_at, loaded |-> TRUE]
    IN [session EXCEPT !.page_index = (page.id :> entry) @@ @]

add_trace_untrimmed(session, step, opcode, result, had_error) ==
    [session EXCEPT !.trace_summary =
        Append(@, [step |-> step, opcode |-> opcode,
                   result |-> Take(result, SUMMARY_CHARS), had_error |-> had_error])]

add_trace(session, step, opcode, result, had_error) ==
    LET entry == [step |-> step, opcode |-> opcode,
                  result |-> Take(result, SUMMARY_CHARS), had_error |-> had_error]
        all == Append(session.trace_summary, entry)
    IN [session EXCEPT !.trace_summary =
            IF Len(all) > MAX_TRACE_ENTRIES
            THEN SubSeq(all, Len(all) - MAX_TRACE_ENTRIES + 1, Len(all))
            ELSE all]

(***************************************************************************)
(* Session backends.  A backend is [kind, files, sessions, pages]: the     *)
(* file backend keeps files, a function from path to the document written  *)
(* there; the in-memory backend keeps sessions (by id) and pages (by       *)
(* <<session id, page id>>).  A document is what serde writes for the      *)
(* struct: a Session without its #[serde(skip)] active_memory, or a        *)
(* MemoryPage.  Writes take io_ok, whether the file system lets the write  *)
(* through.  Every call returns the backend left, the error kind and the   *)
(* value handed back.                                                      *)
(***************************************************************************)
BasePath == <<"b">>

UnsafeChars == {"/", "\\", ":", "*", "?", "\"", "<", ">", "|"}

sanitize_but_colon(id) ==
    [i \in 1..Len(id) |-> IF id[i] \in UnsafeChars \ {":"} THEN "_" ELSE id[i]]

\* page_id.replace(['/', '\\', ':', '*', '?', '"', '<', '>', '|'], "_")
sanitize(id) == [i \in 1..Len(id) |-> IF id[i] \in UnsafeChars THEN "_" ELSE id[i]]

session_dir(session_id) == BasePath \o <<"/">> \o session_id

metadata_path(session_id) ==
    session_dir(session_id)
    \o <<"/", "s", "e", "s", "s", "i", "o", "n", ".", "j", "s", "o", "n">>

page_path_raw(session_id, page_id) ==
    session_dir(session_id) \o <<"/", "p", "a", "g", "e", "s", "/">>
    \o page_id \o <<".", "j", "s", "o", "n">>

page_path(session_id, page_id) ==
    session_dir(session_id) \o <<"/", "p", "a", "g", "e", "s", "/">>
    \o sanitize(page_id) \o <<".", "j", "s", "o", "n">>

\* serde_json::to_string_pretty(session)
SessionDoc(session) ==
    [kind |-> "Session",
     body |-> [metadata |-> session.metadata,
               page_index |-> session.page_index,
               trace_summary |-> session.trace_summary]]

\* serde_json::from_str::<Session>(json)
SessionOfDoc(doc) ==
    [metadata |-> doc.body.metadata,
     page_index |-> doc.body.page_index,
     trace_summary |-> doc.body.trace_summary,
     active_memory |-> Memory_default]

\* serde_json::to_string_pretty(page)
PageDoc(page) == [kind |-> "MemoryPage", body |-> page]

FileBackend_new == [kind |-> "file", files |-> <<>>, sessions |-> <<>>, pages |-> <<>>]
MemoryBackend_new == [kind |-> "memory", files |-> <<>>, sessions |-> <<>>, pages |-> <<>>]

BackRet(backend, err, val) == [backend |-> backend, err |-> err, val |-> val]

save_session(backend, session, io_ok) ==
    IF backend.kind = "file"
    THEN IF ~io_ok
         THEN BackRet(backend, "IoError", Null)
         ELSE BackRet([backend EXCEPT !.files =
                          (metadata_path(session.metadata.id) :> SessionDoc(session)) @@ @],
                      "Ok", Null)
    ELSE BackRet([backend EXCEPT !.sessions = (session.metadata.id :> session) @@ @],
                 "Ok", Null)

load_session(backend, session_id) ==
    IF backend.kind = "file"
    THEN LET path == metadata_path(session_id)
         IN IF path \notin DOMAIN backend.files
            THEN BackRet(backend, "StorageNotFound", Null)
            ELSE IF backend.files[path].kind # "Session"
            THEN BackRet(backend, "ParseError", Null)
            ELSE BackRet(backend, "Ok", SessionOfDoc(backend.files[path]))
    ELSE IF session_id \notin DOMAIN backend.sessions
    THEN BackRet(backend, "StorageNotFound", Null)
    ELSE BackRet(backend, "Ok", backend.sessions[session_id])

save_page(backend, session_id, page, io_ok) ==
    IF backend.kind = "file"
    THEN IF ~io_ok
         THEN BackRet(backend, "IoError", Null)
         ELSE BackRet([backend EXCEPT !.files =
                          (page_path(session_id, page.id) :> PageDoc(page)) @@ @],
                      "Ok", Null)
    ELSE BackRet([backend EXCEPT !.pages = (<<session_id, page.id>> :> page) @@ @],
                 "Ok", Null)

load_page_at(backend, session_id, page_id, path) ==
    IF backend.kind = "file"
    THEN IF path \notin DOMAIN backend.files
         THEN BackRet(backend, "PageNotFound", Null)
         ELSE IF backend.files[path].kind # "MemoryPage"
         THEN BackRet(backend, "ParseError", Null)
         ELSE BackRet(backend, "Ok", backend.files[path].body)
    ELSE IF <<session_id, page_id>> \notin DOMAIN backend.pages
    THEN BackRet(backend, "PageNotFound", Null)
    ELSE BackRet(backend, "Ok", backend.pages[<<session_id, page_id>>])

load_page_unsanitized(backend, session_id, page_id) ==
    load_page_at(backend, session_id, page_id, page_path_raw(session_id, page_id))

load_page(backend, session_id, page_id) ==
    load_page_at(backend, session_id, page_id, page_path(session_id, page_id))

create_session(backend, task, millis, now, io_ok) ==
    LET session == Session_new(generate_id(millis), task, now)
        saved == save_session(backend, session, io_ok)
    IN IF saved.err # "Ok"
       THEN BackRet(backend, saved.err, Null)
       ELSE BackRet(saved.backend, "Ok", session)

session_exists(backend, session_id) == load_session(backend, session_id).err = "Ok"

StartsWith(path, prefix) ==
    Len(path) >= Len(prefix) /\ SubSeq(path, 1, Len(prefix)) = prefix

\* The entries of base_path that are directories: a directory exists once
\* create_dir_all made it for a file written below it.
RECURSIVE FirstComponent(_)
FirstComponent(path) ==
    IF path = <<>> \/ Head(path) = "/" THEN <<>>
    ELSE <<Head(path)>> \o FirstComponent(Tail(path))

session_dirs(backend) ==
    {FirstComponent(SubSeq(path, Len(BasePath) + 2, Len(path))) :
        path \in DOMAIN backend.files}

list_sessions(backend) ==
    IF backend.kind = "file"
    THEN {name \in session_dirs(backend) :
            StartsWith(name, <<"s", "e", "s", "s", "i", "o", "n", "_">>)}
    ELSE DOMAIN backend.sessions

delete_session_keeping_pages(backend, session_id) ==
    IF backend.kind = "file"
    THEN LET kept == DOMAIN backend.files \ {metadata_path(session_id)}
         IN BackRet([backend EXCEPT !.files = [path \in kept |-> @[path]]], "Ok", Null)
    ELSE BackRet([backend EXCEPT
                    !.sessions = [id \in DOMAIN @ \ {session_id} |-> @[id]]],
                 "Ok", Null)

delete_session(backend, session_id) ==
    IF backend.kind = "file"
    THEN IF session_id \notin session_dirs(backend)
         THEN BackRet(backend, "IoError", Null)
         ELSE LET kept == {path \in DOMAIN backend.files :
                              ~StartsWith(path, session_dir(session_id) \o <<"/">>)}
              IN BackRet([backend EXCEPT !.files = [path \in kept |-> @[path]]],
                         "Ok", Null)
    ELSE LET kept == {key \in DOMAIN backend.pages : key[1] # session_id}
         IN BackRet([backend EXCEPT
                        !.sessions = [id \in DOMAIN @ \ {session_id} |-> @[id]],
                        !.pages = [key \in kept |-> @[key]]],
                    "Ok", Null)

(***************************************************************************)
(* Storage (storage.rs).  A storage is [kind, data, namespace]: kind is    *)
(* "memory" or "file", data maps what the backend keeps a value under (the *)
(* key for MemoryStorage, the path of the file for FileStorage) to the     *)
(* value, namespace is the prefix of the user keys or NoLabel.             *)
(***************************************************************************)
Storage_new(kind) == [kind |-> kind, data |-> <<>>, namespace |-> NoLabel]

with_namespace(storage, namespace) == [storage EXCEPT !.namespace = namespace]

\* format!("{}:{}", ns, key)
full_key(storage, key) ==
    IF storage.namespace = NoLabel THEN key ELSE storage.namespace \o <<":">> \o key

\* FileStorage::key_to_path, below the base path
key_to_path(key) ==
    [i \in 1..Len(key) |->
        IF key[i] \in {"/", "\\", ":", "*", "?", "\"", "<", ">", "|"} THEN "_" ELSE key[i]]
    \o <<".", "j", "s", "o", "n">>

checkpoint_key(name) ==
    <<"_", "c", "h", "e", "c", "k", "p", "o", "i", "n", "t", ":">> \o name

\* backend.set(key, data): an insert into the map, or a write of the file
checkpoint(storage, name, data) ==
    LET key == checkpoint_key(name)
        slot == IF storage.kind = "file" THEN key_to_path(key) ELSE key
    IN [storage EXCEPT !.data = (slot :> data) @@ @]

\* backend.get(key): [found, val]
load_checkpoint(storage, name) ==
    LET key == checkpoint_key(name)
        slot == IF storage.kind = "file" THEN key_to_path(key) ELSE key
    IN IF slot \in DOMAIN storage.data
       THEN [found |-> TRUE, val |-> storage.data[slot]]
       ELSE [found |-> FALSE, val |-> Null]

\* StorageBackend::get / set / delete / exists / keys / clear of the two
\* backends, on the key the Storage hands over.
Slot(storage, key) == IF storage.kind = "file" THEN key_to_path(key) ELSE key

backend_get(storage, key) ==
    IF Slot(storage, key) \in DOMAIN storage.data
    THEN [found |-> TRUE, val |-> storage.data[Slot(storage, key)]]
    ELSE [found |-> FALSE, val |-> Null]

backend_set(storage, key, value) ==
    [storage EXCEPT !.data = (Slot(storage, key) :> value) @@ @]

backend_delete(storage, key) ==
    [storage EXCEPT !.data = [slot \in DOMAIN @ \ {Slot(storage, key)} |-> @[slot]]]

backend_exists(storage, key) == Slot(storage, key) \in DOMAIN storage.data

\* MemoryStorage: the keys of the map.  FileStorage: the file stems of
\* the *.json files of the directory.
backend_keys(storage) ==
    IF storage.kind = "file"
    THEN {SubSeq(path, 1, Len(path) - 5) : path \in DOMAIN storage.data}
    ELSE DOMAIN storage.data

RECURSIVE DeleteAll(_, _)
DeleteAll(storage, keys) ==
    IF keys = {} THEN storage
    ELSE LET key == CHOOSE k \in keys : TRUE
         IN DeleteAll(backend_delete(storage, key), keys \ {key})

backend_clear(storage) ==
    IF storage.kind = "file"
    THEN DeleteAll(storage, backend_keys(storage))
    ELSE [storage EXCEPT !.data = <<>>]

\* The user-key interface of Storage.
storage_get(storage, key) == backend_get(storage, full_key(storage, key))

storage_set(storage, key, value) == backend_set(storage, full_key(storage, key), value)

storage_delete(storage, key) == backend_delete(storage, full_key(storage, key))

storage_exists(storage, key) == backend_exists(storage, full_key(storage, key))

StripPrefix(key, prefix) ==
    IF Len(key) >= Len(prefix) /\ SubSeq(key, 1, Len(prefix)) = prefix
    THEN [found |-> TRUE, val |-> SubSeq(key, Len(prefix) + 1, Len(key))]
    ELSE [found |-> FALSE, val |-> <<>>]

storage_keys(storage) ==
    IF storage.namespace = NoLabel THEN backend_keys(storage)
    ELSE LET prefix == storage.namespace \o <<":">>
         IN {StripPrefix(k, prefix).val :
                k \in {x \in backend_keys(storage) : StripPrefix(x, prefix).found}}

storage_clear(storage) == backend_clear(storage)

list_checkpoints(storage) ==
    {StripPrefix(k, checkpoint_key(<<>>)).val :
        k \in {x \in backend_keys(storage) : StripPrefix(x, checkpoint_key(<<>>)).found}}

delete_checkpoint(storage, name) == backend_delete(storage, checkpoint_key(name))

(***************************************************************************)
(* Interpreter.  An Opcode is a record whose op field is its wire tag and  *)
(* whose other fields are the variant's operands.  An interpreter is       *)
(* [code, label_map, pc, memory, stack, registers, storage, trace,         *)
(* step_count, step_limit, session_id, running, result, pending]: pc       *)
(* counts from 0, stack is the data of the value stack, running says       *)
(* that a call of run() is under way, result is what the last call of      *)
(* run() returned and pending is the LlmRequest it suspended on.           *)
(***************************************************************************)
NoRequest == [request_type |-> "None"]
NoResult == [kind |-> "None", value |-> Null, request |-> NoRequest]
NoOutcome == [kind |-> "None", error |-> NoLabel, result |-> Null, pages |-> <<>>]

\* The label index: the position of each LABEL, the last one of a name winning.
label_map(code) ==
    LET at == {i \in 1..Len(code) : code[i].op = "LABEL"}
    IN [name \in {code[i].name : i \in at} |->
            (CHOOSE i \in at : /\ code[i].name = name
                               /\ \A j \in at : code[j].name = name => j <= i) - 1]

Interpreter_new(code, step_limit) ==
    [code |-> code, label_map |-> label_map(code), pc |-> 0, memory |-> Memory_new,
     stack |-> <<>>,
     registers |-> [reg \in {"goal", "focus", "thought", "flags"} |-> Null],
     storage |-> Storage_new("memory"),
     trace |-> <<>>, step_count |-> 0, step_limit |-> step_limit,
     session_id |-> NoLabel, running |-> FALSE, result |-> NoResult,
     pending |-> NoRequest]

\* The LlmRequest a cognitive opcode suspends with.
LlmRequest_of(opcode) ==
    IF opcode.op = "INFER_BATCH"
    THEN [request_type |-> opcode.op, prompt |-> <<>>, context_pages |-> <<>>,
          store_to |-> opcode.store_prefix, prompts |-> opcode.prompts,
          store_prefix |-> opcode.store_prefix, store_combined |-> opcode.store_combined]
    ELSE
    [request_type |-> opcode.op,
     prompt |-> CASE opcode.op = "PLAN" -> opcode.goal
                  [] opcode.op = "REFLECT" -> opcode.question
                  [] OTHER -> opcode.prompt,
     context_pages |-> IF opcode.op \in {"INFER", "PLAN"} THEN opcode.context ELSE <<>>,
     store_to |-> opcode.store_to]

\* Executing one opcode, sessions being the backend the session manager
\* reads: the interpreter left, how the loop goes on
\* (Continue, Terminal, Suspend, or Error when the opcode fails) and the
\* value that goes with it (the result, the error message, the error kind).
execute(ip, opcode, now, checked, sessions) ==
    CASE opcode.op \in {"LABEL", "NOP"} ->
            [ip |-> [ip EXCEPT !.pc = @ + 1], flow |-> "Continue", value |-> Null]
      [] opcode.op = "STORE" ->
            LET r == store(ip.memory, opcode.page_id, opcode.data, now, checked)
            IN IF r.err = "Ok"
               THEN [ip |-> [ip EXCEPT !.memory = r.mem, !.pc = @ + 1],
                     flow |-> "Continue", value |-> Null]
               ELSE [ip |-> ip, flow |-> "Error", value |-> <<r.err>>]
      [] opcode.op = "JUMP" ->
            IF opcode.target \in DOMAIN ip.label_map
            THEN [ip |-> [ip EXCEPT !.pc = ip.label_map[opcode.target]],
                  flow |-> "Continue", value |-> Null]
            ELSE [ip |-> ip, flow |-> "Error", value |-> <<"InvalidLabel">>]
      [] opcode.op = "PUSH" ->
            LET r == push(ip.stack, opcode.value)
            IN IF r.err = "Ok"
               THEN [ip |-> [ip EXCEPT !.stack = r.data, !.pc = @ + 1],
                     flow |-> "Continue", value |-> Null]
               ELSE [ip |-> ip, flow |-> "Error", value |-> <<r.err>>]
      [] opcode.op = "SET_REG" ->
            [ip |-> [ip EXCEPT !.registers[opcode.reg] = opcode.value, !.pc = @ + 1],
             flow |-> "Continue", value |-> Null]
      [] opcode.op = "CHECKPOINT" ->
            LET snapshot == [memory |-> ip.memory, stack |-> ip.stack,
                             registers |-> ip.registers, pc |-> ip.pc]
            IN [ip |-> [ip EXCEPT !.storage = checkpoint(@, opcode.name, snapshot),
                                  !.pc = @ + 1],
                flow |-> "Continue", value |-> Null]
      [] opcode.op = "ROLLBACK" ->
            LET saved == load_checkpoint(ip.storage, opcode.name)
            IN IF saved.found
               THEN [ip |-> [ip EXCEPT !.memory = saved.val.memory,
                                       !.stack = saved.val.stack,
                                       !.registers = saved.val.registers,
                                       !.pc = saved.val.pc],
                     flow |-> "Continue", value |-> Null]
               ELSE [ip |-> ip, flow |-> "Error", value |-> <<"StorageNotFound">>]
      [] opcode.op = "LOAD_PAGE" ->
            LET r == load_page(sessions, ip.session_id, opcode.page_id)
                s == store_page(ip.memory, r.val, checked)
            IN IF ip.session_id = NoLabel
               THEN [ip |-> ip, flow |-> "Error", value |-> <<"SessionNotFound">>]
               ELSE IF r.err # "Ok"
               THEN [ip |-> ip, flow |-> "Error", value |-> <<r.err>>]
               ELSE IF s.err # "Ok"
               THEN [ip |-> ip, flow |-> "Error", value |-> <<s.err>>]
               ELSE [ip |-> [ip EXCEPT !.memory = s.mem, !.pc = @ + 1],
                     flow |-> "Continue", value |-> Null]
      [] opcode.op = "COMPLETE" ->
            [ip |-> ip, flow |-> "Terminal", value |-> opcode.result]
      [] opcode.op = "FAIL" ->
            [ip |-> ip, flow |-> "Terminal", value |-> opcode.error]
      [] opcode.op \in {"INFER", "PLAN", "REFLECT", "INJECT", "INFER_BATCH"} ->
            [ip |-> [ip EXCEPT !.pc = @ + 1, !.pending = LlmRequest_of(opcode)],
             flow |-> "Suspend", value |-> Null]

step_yielding(ip, now, checked, sessions) ==
    IF ip.pc < Len(ip.code) /\ ip.step_count < ip.step_limit
    THEN {[execute(ip, ip.code[ip.pc + 1], now, checked, sessions).ip EXCEPT
              !.step_count = @ + 1, !.running = FALSE,
              !.result = [kind |-> "NeedsLlm", value |-> Null, request |-> NoRequest]]}
    ELSE {[ip EXCEPT !.running = FALSE,
                     !.result = [kind |-> "StepLimitExceeded", value |-> Null,
                                 request |-> NoRequest]]}

\* One turn of the loop of run(): the interpreters it can leave.  Running
\* off the end of the code below the step limit has no prescribed result:
\* the call returns, with Complete(null) or with a failure.
step(ip, now, checked, sessions) ==
    IF ip.pc < Len(ip.code) /\ ip.step_count < ip.step_limit
    THEN LET opcode == ip.code[ip.pc + 1]
             x == execute(ip, opcode, now, checked, sessions)
             entry == [step |-> ip.step_count + 1, opcode |-> opcode.op,
                       result |-> CASE x.flow = "Suspend" -> "pending"
                                    [] x.flow = "Error" -> "error"
                                    [] OTHER -> "ok",
                       error |-> IF x.flow = "Error" THEN x.value ELSE NoLabel]
             next == [x.ip EXCEPT !.step_count = @ + 1, !.trace = Append(@, entry)]
             returned == [next EXCEPT !.running = FALSE]
         IN {CASE x.flow = "Continue" -> next
               [] x.flow = "Terminal" ->
                    [returned EXCEPT !.result =
                        [kind |-> IF opcode.op = "FAIL" THEN "Failed" ELSE "Complete",
                         value |-> x.value, request |-> NoRequest]]
               [] x.flow = "Suspend" ->
                    [returned EXCEPT !.result =
                        [kind |-> "NeedsLlm", value |-> Null, request |-> next.pending]]
               [] x.flow = "Error" ->
                    [returned EXCEPT !.result =
                        [kind |-> "Error", value |-> x.value, request |-> NoRequest]]}
    ELSE IF ip.step_count >= ip.step_limit
    THEN {[ip EXCEPT !.running = FALSE,
                     !.result = [kind |-> "StepLimitExceeded", value |-> Null,
                                 request |-> NoRequest]]}
    ELSE {[ip EXCEPT !.running = FALSE, !.result = r] :
            r \in {[kind |-> "Complete", value |-> Null, request |-> NoRequest],
                   [kind |-> "Failed", value |-> <<"e", "n", "d">>,
                    request |-> NoRequest]}}

provide_llm_response(ip, response, page_id, now, checked) ==
    LET r == store(ip.memory, page_id, response, now, checked)
    IN IF r.err = "Ok"
       THEN [ip |-> [ip EXCEPT !.memory = r.mem, !.pending = NoRequest], err |-> "Ok"]
       ELSE [ip |-> ip, err |-> r.err]

\* The opcodes go in where pc points, right behind the INJECT that
\* suspended, and the label index is rebuilt over the longer code.
inject_opcodes(ip, opcodes) ==
    LET code == SubSeq(ip.code, 1, ip.pc) \o opcodes
                \o SubSeq(ip.code, ip.pc + 1, Len(ip.code))
    IN [ip |-> [ip EXCEPT !.code = code, !.label_map = label_map(code),
                          !.pending = NoRequest],
        err |-> "Ok", val |-> Len(opcodes)]

all_pages(ip) == [id \in page_ids(ip.memory) |-> get(ip.memory, id).content]

(***************************************************************************)
(* Orchestrator (agent.rs).  An agent is [at, session_id, page_index,      *)
(* full_trace, outcome]: at is where the agent stands (new, ready once a   *)
(* session is bound, loop inside run_program, done once run_program has    *)
(* returned, resumed for an agent opened later on the session of a         *)
(* finished one), outcome is what run_program returned.  Its session       *)
(* manager is always over the file backend.                                *)
(***************************************************************************)
Agent_new ==
    [at |-> "new", session_id |-> NoLabel, page_index |-> <<>>, full_trace |-> <<>>,
     outcome |-> NoOutcome]

AgentTask == <<"a", "g", "e", "n", "t", " ", "s", "e", "s", "s", "i", "o", "n">>

with_session(agent, backend, session_id, millis, now, io_ok) ==
    IF session_id # NoLabel
    THEN IF session_exists(backend, session_id)
         THEN [agent |-> [agent EXCEPT !.session_id = session_id,
                                       !.page_index =
                                           load_session(backend, session_id).val.page_index],
               backend |-> backend, err |-> "Ok"]
         ELSE LET saved == save_session(backend, Session_new(session_id, AgentTask, now),
                                        io_ok)
              IN IF saved.err # "Ok"
                 THEN [agent |-> agent, backend |-> backend, err |-> saved.err]
                 ELSE [agent |-> [agent EXCEPT !.session_id = session_id,
                                               !.page_index = <<>>],
                       backend |-> saved.backend, err |-> "Ok"]
    ELSE LET made == create_session(backend, AgentTask, millis, now, io_ok)
         IN IF made.err # "Ok"
            THEN [agent |-> agent, backend |-> backend, err |-> made.err]
            ELSE [agent |-> [agent EXCEPT !.session_id = made.val.metadata.id,
                                          !.page_index = <<>>],
                  backend |-> made.backend, err |-> "Ok"]

\* format!("{:?}", keys): ["k1", "k2"]
RECURSIVE DebugKeys(_)
DebugKeys(pairs) ==
    IF Len(pairs) = 0 THEN <<>>
    ELSE <<"\"">> \o pairs[1][1] \o <<"\"">>
         \o (IF Len(pairs) = 1 THEN <<>> ELSE <<",", " ">> \o DebugKeys(Tail(pairs)))

summarize_value(content) ==
    CASE content[1] = "str" ->
            IF Len(content[2]) > 60 THEN Take(content[2], 60) \o Ellipsis ELSE content[2]
      [] content[1] = "obj" ->
            <<"O", "b", "j", "e", "c", "t", " ", "w", "i", "t", "h", " ",
              "k", "e", "y", "s", ":", " ", "[">> \o DebugKeys(content[2]) \o <<"]">>
      [] content[1] = "arr" ->
            <<"A", "r", "r", "a", "y", " ", "w", "i", "t", "h", " ">>
            \o DecimalDigits(Len(content[2])) \o <<" ", "i", "t", "e", "m", "s">>
      [] content[1] = "null" -> <<"n", "u", "l", "l">>
      [] content[1] = "bool" ->
            IF content[2] THEN <<"t", "r", "u", "e">> ELSE <<"f", "a", "l", "s", "e">>
      [] content[1] = "num" -> DecimalDigits(content[2])

\* The loop of save_to_session over the pages, taken in the order the
\* HashMap yields them.  acc is [session, backend, page_index, err, writes];
\* the first writes_ok writes of the flush go through, the next one fails.
RECURSIVE save_pages(_, _, _, _, _, _)
save_pages(acc, session_id, pages, order, now, writes_ok) ==
    IF order = <<>> \/ acc.err # "Ok" THEN acc
    ELSE LET page_id == Head(order)
             page == MemoryPage_new(page_id, pages[page_id], now)
             summary == summarize_value(pages[page_id])
             saved == save_page(acc.backend, session_id, page, acc.writes < writes_ok)
             idx == [id |-> page_id, summary |-> summary, tokens |-> page.size_tokens,
                     content_type |-> NoLabel, created_at |-> now, accessed_at |-> now,
                     loaded |-> FALSE]
         IN save_pages([session |-> index_page(acc.session, page, summary),
                        backend |-> saved.backend,
                        page_index |-> IF saved.err = "Ok"
                                       THEN (page_id :> idx) @@ acc.page_index
                                       ELSE acc.page_index,
                        err |-> saved.err,
                        writes |-> acc.writes + 1],
                       session_id, pages, Tail(order), now, writes_ok)

save_to_session(agent, backend, pages, order, now, writes_ok) ==
    IF agent.session_id = NoLabel
    THEN [agent |-> agent, backend |-> backend, err |-> "Ok"]
    ELSE LET loaded == load_session(backend, agent.session_id)
         IN IF loaded.err # "Ok"
            THEN [agent |-> agent, backend |-> backend, err |-> loaded.err]
            ELSE LET done == save_pages([session |-> loaded.val, backend |-> backend,
                                         page_index |-> agent.page_index, err |-> "Ok",
                                         writes |-> 0],
                                        agent.session_id, pages, order, now, writes_ok)
                     saved == save_session(done.backend, done.session,
                                           done.writes < writes_ok)
                     left == [agent EXCEPT !.page_index = done.page_index]
                 IN IF done.err # "Ok"
                    THEN [agent |-> left, backend |-> done.backend, err |-> done.err]
                    ELSE [agent |-> left, backend |-> saved.backend, err |-> saved.err]

extend_trace_but_last(agent, ip) ==
    [agent EXCEPT !.full_trace = @ \o SubSeq(ip.trace, 1, Len(ip.trace) - 1)]

\* full_trace.extend(interp.trace().iter().cloned())
extend_trace(agent, ip) == [agent EXCEPT !.full_trace = @ \o ip.trace]

\* run_program returns Err(error); error is a string, or the kind of the
\* error it is the message of
abort(agent, error) ==
    [agent EXCEPT !.at = "done",
                  !.outcome = [kind |-> "Err", error |-> error, result |-> Null,
                               pages |-> <<>>]]

\* The answer to Infer, Plan and Reflect: {"response": content, "success": true}
\* goes to the page the request names.
answer_llm_elsewhere(ip, request, content, now, checked) ==
    provide_llm_response(ip, Obj(<<<<<<"r", "e", "s", "p", "o", "n", "s", "e">>, Str(content)>>,
                                   <<<<"s", "u", "c", "c", "e", "s", "s">>, Bool(TRUE)>>>>),
                         request.prompt, now, checked)

answer_llm(ip, request, content, now, checked) ==
    provide_llm_response(ip, Obj(<<<<<<"r", "e", "s", "p", "o", "n", "s", "e">>, Str(content)>>,
                                   <<<<"s", "u", "c", "c", "e", "s", "s">>, Bool(TRUE)>>>>),
                         request.store_to, now, checked)

\* The results of an InferBatch, one per prompt: replies[i] is what the
\* provider came back with for prompts[i].  A failed call is a result with
\* success false, content that is missing is the empty response.
handle_infer_batch_request(prompts, replies) ==
    LET index(i) == <<<<"i", "n", "d", "e", "x">>, Num(i - 1)>>
        success(b) == <<<<"s", "u", "c", "c", "e", "s", "s">>, Bool(b)>>
    IN [i \in 1..Len(prompts) |->
          IF replies[i].kind = "error"
          THEN Obj(<<<<<<"e", "r", "r", "o", "r">>, Str(<<"e">>)>>, index(i), success(FALSE)>>)
          ELSE Obj(<<index(i),
                     <<<<"r", "e", "s", "p", "o", "n", "s", "e">>,
                       Str(IF replies[i].kind = "text" THEN replies[i].content ELSE <<>>)>>,
                     success(TRUE)>>)]

\* The loop that hands result i to page {store_prefix}_{i}; acc is
\* [ip, err, delivered], delivered the pages written with what was written.
RECURSIVE deliver_results(_, _, _, _, _, _)
deliver_results(acc, results, i, store_prefix, now, checked) ==
    IF i > Len(results) \/ acc.err # "Ok" THEN acc
    ELSE LET page_id == store_prefix \o <<"_">> \o DecimalDigits(i - 1)
             r == provide_llm_response(acc.ip, results[i], page_id, now, checked)
         IN deliver_results(
                [ip |-> r.ip, err |-> r.err,
                 delivered |-> IF r.err = "Ok"
                               THEN Append(acc.delivered,
                                           [page |-> page_id, value |-> results[i]])
                               ELSE acc.delivered],
                results, i + 1, store_prefix, now, checked)

answer_infer_batch_uncombined(ip, request, results, now, checked) ==
    deliver_results([ip |-> ip, err |-> "Ok", delivered |-> <<>>], results, 1,
                    request.store_prefix, now, checked)

\* The answer to InferBatch: the results one by one, then
\* {"results": results, "count": n, "success": true} if store_combined is set.
answer_infer_batch(ip, request, results, now, checked) ==
    LET each == deliver_results([ip |-> ip, err |-> "Ok", delivered |-> <<>>], results, 1,
                                request.store_prefix, now, checked)
        combined == Obj(<<<<<<"c", "o", "u", "n", "t">>, Num(Len(results))>>,
                          <<<<"r", "e", "s", "u", "l", "t", "s">>, Arr(results)>>,
                          <<<<"s", "u", "c", "c", "e", "s", "s">>, Bool(TRUE)>>>>)
        r == provide_llm_response(each.ip, combined, request.store_combined, now, checked)
    IN IF each.err # "Ok" \/ request.store_combined = NoLabel THEN each
       ELSE [ip |-> r.ip, err |-> r.err,
             delivered |-> IF r.err = "Ok"
                           THEN Append(each.delivered,
                                       [page |-> request.store_combined, value |-> combined])
                           ELSE each.delivered]

\* The answer to Inject: the opcodes parsed from the reply, as parsed.
answer_inject_reversed(ip, opcodes) ==
    inject_opcodes(ip, [i \in 1..Len(opcodes) |-> opcodes[Len(opcodes) + 1 - i]])

answer_inject(ip, opcodes) == inject_opcodes(ip, opcodes)

StepLimitMessage ==
    <<"S", "t", "e", "p", " ", "l", "i", "m", "i", "t", " ",
      "e", "x", "c", "e", "e", "d", "e", "d">>

on_step_limit_no_trace(agent, ip) == abort(agent, StepLimitMessage)

on_step_limit(agent, ip) == abort(extend_trace(agent, ip), StepLimitMessage)

(***************************************************************************)
(* The parsers of the provider's output (agent.rs).  Text is a sequence of *)
(* characters.  serde_json::from_str is modelled over the documents the    *)
(* provider is given to answer with: it accepts the text of a document of  *)
(* the expected shape, with or without whitespace around it, and rejects   *)
(* every other text.                                                       *)
(***************************************************************************)
Whitespace == {" "}

\* The backtick character.
Backtick == "backtick"

Fence == <<Backtick, Backtick, Backtick>>
JsonFence == Fence \o <<"j", "s", "o", "n">>

\* Where pattern first occurs in text, 0 when it does not.
find(text, pattern) ==
    LET at == {i \in 1..(Len(text) - Len(pattern) + 1) :
                  SubSeq(text, i, i + Len(pattern) - 1) = pattern}
    IN IF at = {} THEN 0 ELSE CHOOSE i \in at : \A j \in at : i <= j

contains(text, pattern) == find(text, pattern) # 0

\* text.split(pattern).next()
split_first(text, pattern) ==
    IF contains(text, pattern) THEN SubSeq(text, 1, find(text, pattern) - 1) ELSE text

\* text.split(pattern).nth(1), for a text that contains pattern
split_second(text, pattern) ==
    split_first(SubSeq(text, find(text, pattern) + Len(pattern), Len(text)), pattern)

trim(text) ==
    LET kept == {i \in 1..Len(text) : text[i] \notin Whitespace}
    IN IF kept = {} THEN <<>>
       ELSE SubSeq(text, CHOOSE i \in kept : \A j \in kept : i <= j,
                         CHOOSE i \in kept : \A j \in kept : i >= j)

\* The text both parsers hand to serde_json::from_str.
json_str(content) ==
    IF contains(content, JsonFence)
    THEN trim(split_first(split_second(content, JsonFence), Fence))
    ELSE IF contains(content, Fence)
    THEN trim(split_second(content, Fence))
    ELSE trim(content)

\* serde_json::to_string of the Program and of the opcodes below
ProgramText ==
    <<"{", "\"", "i", "d", "\"", ":", "\"", "p", "\"", ",", "\"", "n", "a",
      "m", "e", "\"", ":", "\"", "n", "\"", ",", "\"", "c", "o", "d", "e",
      "\"", ":", "[", "{", "\"", "o", "p", "\"", ":", "\"", "I", "N", "J",
      "E", "C", "T", "\"", ",", "\"", "p", "r", "o", "m", "p", "t", "\"",
      ":", "\"", "g", "\"", ",", "\"", "s", "t", "o", "r", "e", "_", "t",
      "o", "\"", ":", "\"", "_", "\"", "}", ",", "{", "\"", "o", "p", "\"",
      ":", "\"", "C", "O", "M", "P", "L", "E", "T", "E", "\"", ",", "\"",
      "r", "e", "s", "u", "l", "t", "\"", ":", "n", "u", "l", "l", "}", "]",
      "}">>

OpcodesText ==
    <<"[", "{", "\"", "o", "p", "\"", ":", "\"", "S", "T", "O", "R", "E",
      "\"", ",", "\"", "p", "a", "g", "e", "_", "i", "d", "\"", ":", "\"",
      "x", "\"", ",", "\"", "d", "a", "t", "a", "\"", ":", "1", "}", "]">>

ProgramOfText ==
    [id |-> <<"p">>, name |-> <<"n">>, description |-> NoLabel, entry |-> NoLabel,
     code |-> <<[op |-> "INJECT", prompt |-> <<"g">>, store_to |-> <<"_">>],
                [op |-> "COMPLETE", result |-> Null]>>]

OpcodesOfText == <<[op |-> "STORE", page_id |-> <<"x">>, data |-> Num(1)]>>

ParseRet(err, val) == [err |-> err, val |-> val]

\* serde_json::from_str::<Program>(text)
from_str_program(text) ==
    IF trim(text) = ProgramText THEN ParseRet("Ok", ProgramOfText)
    ELSE ParseRet("Failed to parse program", Null)

\* serde_json::from_str::<Vec<Opcode>>(text)
from_str_opcodes(text) ==
    IF trim(text) = OpcodesText THEN ParseRet("Ok", OpcodesOfText)
    ELSE ParseRet("Failed to parse injected opcodes", Null)

parse_program(content) == from_str_program(json_str(content))

parse_opcodes(content) == from_str_opcodes(json_str(content))

(***************************************************************************)
(* The wire format (opcode.rs): what the derived Serialize and Deserialize *)
(* of Program, Opcode, Range, InferParams, LogLevel and Register make of a *)
(* value and of a JSON tree.  An Opcode is [name, values]: the name of the *)
(* variant and the values of its fields in the order of declaration.  An   *)
(* Option is NoLabel or <<"Some", x>>; an f32 is <<"f32", n>> for the      *)
(* finite value n and <<"inf">> for an infinite one.                       *)
(***************************************************************************)
LowerCase ==
    <<"a", "b", "c", "d", "e", "f", "g", "h", "i", "j", "k", "l", "m",
      "n", "o", "p", "q", "r", "s", "t", "u", "v", "w", "x", "y", "z">>
UpperCase ==
    <<"A", "B", "C", "D", "E", "F", "G", "H", "I", "J", "K", "L", "M",
      "N", "O", "P", "Q", "R", "S", "T", "U", "V", "W", "X", "Y", "Z">>

IsUpper(c) == \E i \in 1..26 : UpperCase[i] = c
to_uppercase(c) ==
    IF \E i \in 1..26 : LowerCase[i] = c
    THEN UpperCase[CHOOSE i \in 1..26 : LowerCase[i] = c] ELSE c
to_lowercase(c) ==
    IF IsUpper(c) THEN LowerCase[CHOOSE i \in 1..26 : UpperCase[i] = c] ELSE c

RECURSIVE Concat(_)
Concat(pieces) == IF pieces = <<>> THEN <<>> ELSE Head(pieces) \o Concat(Tail(pieces))

\* rename_all = "snake_case": a _ before every capital but the first
snake_case(name) ==
    Concat([i \in 1..Len(name) |->
              (IF i > 1 /\ IsUpper(name[i]) THEN <<"_">> ELSE <<>>)
              \o <<to_lowercase(name[i])>>])

\* rename_all = "SCREAMING_SNAKE_CASE"
screaming_snake_case(name) ==
    LET snake == snake_case(name)
    IN [i \in 1..Len(snake) |-> to_uppercase(snake[i])]

\* rename_all = "lowercase"
lowercase(name) == [i \in 1..Len(name) |-> to_lowercase(name[i])]

StructField(key, type, default) == [key |-> key, type |-> type, default |-> default]

\* The variants of Opcode and their fields: default is "default" for
\* #[serde(default)], "one" for #[serde(default = "default_one")].
OpcodeFields ==
    <<"L", "o", "a", "d">> :> <<
        StructField(<<"p", "a", "g", "e", "_", "i", "d">>, "String", "none"),
        StructField(<<"r", "a", "n", "g", "e">>, "OptRange", "default")>> @@
    <<"S", "t", "o", "r", "e">> :> <<
        StructField(<<"p", "a", "g", "e", "_", "i", "d">>, "String", "none"),
        StructField(<<"d", "a", "t", "a">>, "Value", "none")>> @@
    <<"A", "l", "l", "o", "c">> :> <<
        StructField(<<"s", "i", "z", "e", "_", "h", "i", "n", "t">>, "OptUsize", "default"),
        StructField(<<"l", "a", "b", "e", "l">>, "OptString", "default")>> @@
    <<"F", "r", "e", "e">> :> <<
        StructField(<<"p", "a", "g", "e", "_", "i", "d">>, "String", "none")>> @@
    <<"C", "o", "p", "y">> :> <<
        StructField(<<"s", "r", "c">>, "String", "none"),
        StructField(<<"d", "s", "t">>, "String", "none"),
        StructField(<<"r", "a", "n", "g", "e">>, "OptRange", "default")>> @@
    <<"C", "a", "l", "l">> :> <<
        StructField(<<"p", "r", "o", "g", "r", "a", "m", "_", "i", "d">>, "String", "none"),
        StructField(<<"a", "r", "g", "s">>, "Value", "default")>> @@
    <<"R", "e", "t", "u", "r", "n">> :> <<
        StructField(<<"v", "a", "l", "u", "e">>, "Value", "default")>> @@
    <<"Y", "i", "e", "l", "d">> :> <<>> @@
    <<"C", "o", "m", "p", "l", "e", "t", "e">> :> <<
        StructField(<<"r", "e", "s", "u", "l", "t">>, "Value", "none")>> @@
    <<"F", "a", "i", "l">> :> <<
        StructField(<<"e", "r", "r", "o", "r">>, "String", "none")>> @@
    <<"B", "r", "a", "n", "c", "h">> :> <<
        StructField(<<"c", "o", "n", "d", "i", "t", "i", "o", "n">>, "String", "none"),
        StructField(<<"i", "f", "_", "t", "r", "u", "e">>, "String", "none"),
        StructField(<<"i", "f", "_", "f", "a", "l", "s", "e">>, "String", "none")>> @@
    <<"J", "u", "m", "p">> :> <<
        StructField(<<"t", "a", "r", "g", "e", "t">>, "String", "none")>> @@
    <<"L", "a", "b", "e", "l">> :> <<
        StructField(<<"n", "a", "m", "e">>, "String", "none")>> @@
    <<"L", "o", "o", "p">> :> <<
        StructField(<<"v", "a", "r">>, "String", "none"),
        StructField(<<"o", "v", "e", "r">>, "String", "none"),
        StructField(<<"b", "o", "d", "y">>, "VecOpcode", "default")>> @@
    <<"S", "y", "s", "c", "a", "l", "l">> :> <<
        StructField(<<"c", "a", "l", "l">>, "String", "none"),
        StructField(<<"a", "r", "g", "s">>, "Value", "default"),
        StructField(<<"s", "t", "o", "r", "e", "_", "t", "o">>, "OptString", "default")>> @@
    <<"R", "e", "a", "d", "F", "i", "l", "e">> :> <<
        StructField(<<"p", "a", "t", "h">>, "String", "none"),
        StructField(<<"s", "t", "o", "r", "e", "_", "t", "o">>, "String", "none")>> @@
    <<"W", "r", "i", "t", "e", "F", "i", "l", "e">> :> <<
        StructField(<<"p", "a", "t", "h">>, "String", "none"),
        StructField(<<"c", "o", "n", "t", "e", "n", "t">>, "String", "none"),
        StructField(<<"s", "t", "o", "r", "e", "_", "t", "o">>, "OptString", "default")>> @@
    <<"L", "i", "s", "t", "D", "i", "r">> :> <<
        StructField(<<"p", "a", "t", "h">>, "String", "none"),
        StructField(<<"s", "t", "o", "r", "e", "_", "t", "o">>, "String", "none")>> @@
    <<"E", "x", "e", "c">> :> <<
        StructField(<<"c", "o", "m", "m", "a", "n", "d">>, "String", "none"),
        StructField(<<"s", "t", "o", "r", "e", "_", "t", "o">>, "String", "none")>> @@
    <<"G", "r", "e", "p">> :> <<
        StructField(<<"p", "a", "t", "t", "e", "r", "n">>, "String", "none"),
        StructField(<<"p", "a", "t", "h">>, "String", "none"),
        StructField(<<"s", "t", "o", "r", "e", "_", "t", "o">>, "String", "none")>> @@
    <<"W", "a", "i", "t">> :> <<
        StructField(<<"h", "a", "n", "d", "l", "e">>, "String", "none"),
        StructField(<<"t", "i", "m", "e", "o", "u", "t", "_", "m", "s">>, "OptUsize", "default")>> @@
    <<"F", "o", "r", "k">> :> <<
        StructField(<<"p", "r", "o", "g", "r", "a", "m", "_", "i", "d">>, "String", "none"),
        StructField(<<"a", "r", "g", "s">>, "Value", "default")>> @@
    <<"J", "o", "i", "n">> :> <<
        StructField(<<"p", "i", "d">>, "String", "none")>> @@
    <<"S", "e", "n", "d">> :> <<
        StructField(<<"p", "i", "d">>, "String", "none"),
        StructField(<<"m", "e", "s", "s", "a", "g", "e">>, "Value", "none")>> @@
    <<"R", "e", "c", "v">> :> <<
        StructField(<<"t", "i", "m", "e", "o", "u", "t", "_", "m", "s">>, "OptUsize", "default"),
        StructField(<<"s", "t", "o", "r", "e", "_", "t", "o">>, "String", "none")>> @@
    <<"I", "n", "f", "e", "r">> :> <<
        StructField(<<"p", "r", "o", "m", "p", "t">>, "String", "none"),
        StructField(<<"c", "o", "n", "t", "e", "x", "t">>, "VecString", "default"),
        StructField(<<"s", "t", "o", "r", "e", "_", "t", "o">>, "String", "none"),
        StructField(<<"p", "a", "r", "a", "m", "s">>, "InferParams", "default")>> @@
    <<"P", "l", "a", "n">> :> <<
        StructField(<<"g", "o", "a", "l">>, "String", "none"),
        StructField(<<"c", "o", "n", "t", "e", "x", "t">>, "VecString", "default"),
        StructField(<<"s", "t", "o", "r", "e", "_", "t", "o">>, "String", "none")>> @@
    <<"R", "e", "f", "l", "e", "c", "t">> :> <<
        StructField(<<"q", "u", "e", "s", "t", "i", "o", "n">>, "String", "none"),
        StructField(<<"i", "n", "c", "l", "u", "d", "e", "_", "t", "r", "a", "c", "e">>, "bool", "default"),
        StructField(<<"s", "t", "o", "r", "e", "_", "t", "o">>, "String", "none")>> @@
    <<"S", "u", "m", "m", "a", "r", "i", "z", "e">> :> <<
        StructField(<<"p", "a", "g", "e", "s">>, "VecString", "none"),
        StructField(<<"t", "a", "r", "g", "e", "t", "_", "t", "o", "k", "e", "n", "s">>, "OptUsize", "default"),
        StructField(<<"s", "t", "o", "r", "e", "_", "t", "o">>, "String", "none")>> @@
    <<"C", "h", "u", "n", "k">> :> <<
        StructField(<<"s", "o", "u", "r", "c", "e">>, "String", "none"),
        StructField(<<"c", "h", "u", "n", "k", "_", "s", "i", "z", "e">>, "usize", "none"),
        StructField(<<"p", "r", "e", "f", "i", "x">>, "OptString", "default")>> @@
    <<"M", "e", "r", "g", "e">> :> <<
        StructField(<<"p", "a", "g", "e", "s">>, "VecString", "none"),
        StructField(<<"s", "t", "o", "r", "e", "_", "t", "o">>, "String", "none"),
        StructField(<<"s", "e", "p", "a", "r", "a", "t", "o", "r">>, "OptString", "default")>> @@
    <<"N", "o", "p">> :> <<>> @@
    <<"L", "o", "g">> :> <<
        StructField(<<"l", "e", "v", "e", "l">>, "LogLevel", "none"),
        StructField(<<"m", "e", "s", "s", "a", "g", "e">>, "String", "none")>> @@
    <<"C", "h", "e", "c", "k", "p", "o", "i", "n", "t">> :> <<
        StructField(<<"n", "a", "m", "e">>, "String", "none")>> @@
    <<"R", "o", "l", "l", "b", "a", "c", "k">> :> <<
        StructField(<<"n", "a", "m", "e">>, "String", "none")>> @@
    <<"A", "s", "s", "e", "r", "t">> :> <<
        StructField(<<"c", "o", "n", "d", "i", "t", "i", "o", "n">>, "String", "none"),
        StructField(<<"m", "e", "s", "s", "a", "g", "e">>, "String", "none")>> @@
    <<"S", "e", "t", "R", "e", "g">> :> <<
        StructField(<<"r", "e", "g">>, "Register", "none"),
        StructField(<<"v", "a", "l", "u", "e">>, "Value", "none")>> @@
    <<"G", "e", "t", "R", "e", "g">> :> <<
        StructField(<<"r", "e", "g">>, "Register", "none"),
        StructField(<<"s", "t", "o", "r", "e", "_", "t", "o">>, "String", "none")>> @@
    <<"P", "u", "s", "h">> :> <<
        StructField(<<"v", "a", "l", "u", "e">>, "Value", "none")>> @@
    <<"P", "u", "s", "h", "P", "a", "g", "e">> :> <<
        StructField(<<"p", "a", "g", "e", "_", "i", "d">>, "String", "none")>> @@
    <<"P", "o", "p">> :> <<>> @@
    <<"P", "o", "p", "T", "o">> :> <<
        StructField(<<"s", "t", "o", "r", "e", "_", "t", "o">>, "String", "none")>> @@
    <<"P", "e", "e", "k">> :> <<
        StructField(<<"s", "t", "o", "r", "e", "_", "t", "o">>, "String", "none")>> @@
    <<"P", "e", "e", "k", "A", "t">> :> <<
        StructField(<<"d", "e", "p", "t", "h">>, "usize", "none"),
        StructField(<<"s", "t", "o", "r", "e", "_", "t", "o">>, "String", "none")>> @@
    <<"D", "u", "p">> :> <<>> @@
    <<"D", "u", "p", "N">> :> <<
        StructField(<<"n">>, "usize", "none")>> @@
    <<"S", "w", "a", "p">> :> <<>> @@
    <<"S", "w", "a", "p", "N">> :> <<
        StructField(<<"n">>, "usize", "none")>> @@
    <<"R", "o", "t">> :> <<
        StructField(<<"n">>, "usize", "none")>> @@
    <<"D", "r", "o", "p">> :> <<
        StructField(<<"n">>, "usize", "one")>> @@
    <<"D", "e", "p", "t", "h">> :> <<
        StructField(<<"s", "t", "o", "r", "e", "_", "t", "o">>, "String", "none")>> @@
    <<"C", "l", "e", "a", "r">> :> <<>>

OpTagKey == <<"o", "p">>

LogLevels == {<<"D", "e", "b", "u", "g">>, <<"I", "n", "f", "o">>,
              <<"W", "a", "r", "n">>, <<"E", "r", "r", "o", "r">>}

UnitRegisters == {<<"P", "c">>, <<"G", "o", "a", "l">>, <<"F", "o", "c", "u", "s">>,
                  <<"T", "h", "o", "u", "g", "h", "t">>, <<"F", "l", "a", "g", "s">>,
                  <<"S", "p">>}

CustomKey == <<"c", "u", "s", "t", "o", "m">>

RangeFields ==
    <<StructField(<<"s", "t", "a", "r", "t">>, "usize", "none"),
      StructField(<<"e", "n", "d">>, "usize", "none")>>

InferParamsFields ==
    <<StructField(<<"t", "e", "m", "p", "e", "r", "a", "t", "u", "r", "e">>, "OptF32", "default"),
      StructField(<<"m", "a", "x", "_", "t", "o", "k", "e", "n", "s">>, "OptUsize", "default"),
      StructField(<<"m", "o", "d", "e", "l">>, "OptString", "default")>>

ProgramFields ==
    <<StructField(<<"i", "d">>, "String", "none"),
      StructField(<<"n", "a", "m", "e">>, "String", "none"),
      StructField(<<"d", "e", "s", "c", "r", "i", "p", "t", "i", "o", "n">>, "OptString", "default"),
      StructField(<<"c", "o", "d", "e">>, "VecOpcode", "none"),
      StructField(<<"e", "n", "t", "r", "y">>, "OptString", "default")>>

Some(x) == <<"Some", x>>

\* What Serialize writes for a value of a type.
RECURSIVE to_value(_, _)
RECURSIVE struct_to_pairs(_, _)
RECURSIVE Opcode_to_value(_)

struct_to_pairs(fields, values) ==
    [i \in 1..Len(fields) |-> <<fields[i].key, to_value(fields[i].type, values[i])>>]

Opcode_to_value(opcode) ==
    Obj(<<<<OpTagKey, Str(screaming_snake_case(opcode.name))>>>>
        \o struct_to_pairs(OpcodeFields[opcode.name], opcode.values))

Option_to_value(type, v) == IF v = NoLabel THEN Null ELSE to_value(type, v[2])

to_value(type, v) ==
    CASE type = "String" -> Str(v)
      [] type = "Value" -> v
      [] type = "usize" -> Num(v)
      [] type = "bool" -> Bool(v)
      [] type = "f32" -> IF v = <<"inf">> THEN Null ELSE Num(v[2])
      [] type = "OptString" -> Option_to_value("String", v)
      [] type = "OptUsize" -> Option_to_value("usize", v)
      [] type = "OptF32" -> Option_to_value("f32", v)
      [] type = "OptRange" -> Option_to_value("Range", v)
      [] type = "Range" -> Obj(struct_to_pairs(RangeFields, v))
      [] type = "InferParams" -> Obj(struct_to_pairs(InferParamsFields, v))
      [] type = "VecString" -> Arr([i \in 1..Len(v) |-> Str(v[i])])
      [] type = "VecOpcode" -> Arr([i \in 1..Len(v) |-> Opcode_to_value(v[i])])
      [] type = "LogLevel" -> Str(lowercase(v))
      [] type = "Register" ->
            IF v \in UnitRegisters THEN Str(snake_case(v))
            ELSE Obj(<<<<CustomKey, Str(v[2])>>>>)

Program_to_value(program) == Obj(struct_to_pairs(ProgramFields, program))

\* What Deserialize reads from a JSON tree: [ok, val].
Read(val) == [ok |-> TRUE, val |-> val]
ReadError == [ok |-> FALSE, val |-> Null]

Lookup(pairs, key) ==
    LET at == {i \in 1..Len(pairs) : pairs[i][1] = key}
    IN IF at = {} THEN ReadError ELSE Read(pairs[CHOOSE i \in at : \A j \in at : i <= j][2])

DefaultOf(field) ==
    IF field.default = "one" THEN 1
    ELSE CASE field.type \in {"OptString", "OptUsize", "OptF32", "OptRange"} -> NoLabel
           [] field.type = "Value" -> Null
           [] field.type = "bool" -> FALSE
           [] field.type \in {"VecString", "VecOpcode"} -> <<>>
           [] field.type = "InferParams" -> <<NoLabel, NoLabel, NoLabel>>

HasDefault(field) ==
    field.default # "none" \/ field.type \in {"OptString", "OptUsize", "OptF32", "OptRange"}

RECURSIVE from_value(_, _)
RECURSIVE struct_from_pairs(_, _)
RECURSIVE Opcode_from_value(_)

struct_from_pairs(fields, pairs) ==
    LET read == [i \in 1..Len(fields) |->
                    IF Lookup(pairs, fields[i].key).ok
                    THEN from_value(fields[i].type, Lookup(pairs, fields[i].key).val)
                    ELSE IF HasDefault(fields[i]) THEN Read(DefaultOf(fields[i]))
                    ELSE ReadError]
    IN IF \A i \in 1..Len(fields) : read[i].ok
       THEN Read([i \in 1..Len(fields) |-> read[i].val])
       ELSE ReadError

Opcode_from_value(json) ==
    IF json[1] # "obj" \/ ~Lookup(json[2], OpTagKey).ok
       \/ Lookup(json[2], OpTagKey).val[1] # "str"
    THEN ReadError
    ELSE LET tag == Lookup(json[2], OpTagKey).val[2]
             named == {v \in DOMAIN OpcodeFields : screaming_snake_case(v) = tag}
         IN IF named = {} THEN ReadError
            ELSE LET variant == CHOOSE v \in named : TRUE
                     read == struct_from_pairs(OpcodeFields[variant], json[2])
                 IN IF read.ok THEN Read([name |-> variant, values |-> read.val])
                    ELSE ReadError

Option_from_value(type, json) ==
    IF json = Null THEN Read(NoLabel)
    ELSE LET read == from_value(type, json)
         IN IF read.ok THEN Read(Some(read.val)) ELSE ReadError

from_value(type, json) ==
    CASE type = "String" -> IF json[1] = "str" THEN Read(json[2]) ELSE ReadError
      [] type = "Value" -> Read(json)
      [] type = "usize" -> IF json[1] = "num" /\ json[2] >= 0 THEN Read(json[2]) ELSE ReadError
      [] type = "bool" -> IF json[1] = "bool" THEN Read(json[2]) ELSE ReadError
      [] type = "f32" -> IF json[1] = "num" THEN Read(<<"f32", json[2]>>) ELSE ReadError
      [] type = "OptString" -> Option_from_value("String", json)
      [] type = "OptUsize" -> Option_from_value("usize", json)
      [] type = "OptF32" -> Option_from_value("f32", json)
      [] type = "OptRange" -> Option_from_value("Range", json)
      [] type = "Range" ->
            IF json[1] = "obj" THEN struct_from_pairs(RangeFields, json[2]) ELSE ReadError
      [] type = "InferParams" ->
            IF json[1] = "obj" THEN struct_from_pairs(InferParamsFields, json[2])
            ELSE ReadError
      [] type = "VecString" ->
            IF json[1] = "arr" /\ \A i \in 1..Len(json[2]) : json[2][i][1] = "str"
            THEN Read([i \in 1..Len(json[2]) |-> json[2][i][2]]) ELSE ReadError
      [] type = "VecOpcode" ->
            IF json[1] = "arr" /\ \A i \in 1..Len(json[2]) : Opcode_from_value(json[2][i]).ok
            THEN Read([i \in 1..Len(json[2]) |-> Opcode_from_value(json[2][i]).val])
            ELSE ReadError
      [] type = "LogLevel" ->
            IF json[1] = "str" /\ \E v \in LogLevels : lowercase(v) = json[2]
            THEN Read(CHOOSE v \in LogLevels : lowercase(v) = json[2]) ELSE ReadError
      [] type = "Register" ->
            IF json[1] = "str" /\ \E v \in UnitRegisters : snake_case(v) = json[2]
            THEN Read(CHOOSE v \in UnitRegisters : snake_case(v) = json[2])
            ELSE IF json[1] = "obj" /\ Len(json[2]) = 1 /\ json[2][1][1] = CustomKey
                    /\ json[2][1][2][1] = "str"
            THEN Read(<<"Custom", json[2][1][2][2]>>)
            ELSE ReadError

Program_from_value(json) ==
    IF json[1] = "obj" THEN struct_from_pairs(ProgramFields, json[2]) ELSE ReadError

(***************************************************************************)
(* Errors (llcraft-error).  An Error is [kind, status, operation, context] *)
(* with context the sequence of its key/value pairs.  ErrorStatus          *)
(* (status.rs) is given by the specification: persist marks a Temporary    *)
(* error Persistent, and only a Temporary error is retryable.              *)
(***************************************************************************)
ErrorKinds ==
    {"Unexpected", "Unsupported", "ConfigInvalid", "PageNotFound", "PageOverflow",
     "InvalidRange", "StackOverflow", "StackUnderflow", "StorageNotFound",
     "StorageFailed", "SerializationFailed", "ProgramNotFound", "InvalidLabel",
     "CallDepthExceeded", "NoReturnAddress", "InvalidOpcode", "SyscallFailed",
     "SyscallTimeout", "SyscallUnknown", "ProcessNotFound", "ChannelClosed",
     "ForkFailed", "InferenceFailed", "ContextTooLarge", "ProviderUnavailable",
     "RateLimited", "FileNotFound", "PermissionDenied", "IoFailed", "NetworkFailed",
     "ParseFailed", "AssertionFailed", "InvalidArgument", "NotImplemented"}

ErrorStatuses == {"Permanent", "Temporary", "Persistent"}

ErrorKind_is_retryable(kind) ==
    kind \in {"InferenceFailed", "NetworkFailed", "RateLimited", "SyscallTimeout",
              "ProviderUnavailable"}

ErrorStatus_persist(status) == IF status = "Temporary" THEN "Persistent" ELSE status

ErrorStatus_is_retryable(status) == status = "Temporary"

Error_new_permanent(kind) ==
    [kind |-> kind, status |-> "Permanent", operation |-> "", context |-> <<>>]

Error_new(kind) ==
    [kind |-> kind,
     status |-> IF ErrorKind_is_retryable(kind) THEN "Temporary" ELSE "Permanent",
     operation |-> "", context |-> <<>>]

Error_with_status(error, status) == [error EXCEPT !.status = status]

Error_temporary(error) == [error EXCEPT !.status = "Temporary"]

Error_permanent(error) == [error EXCEPT !.status = "Permanent"]

Error_with_operation(error, operation) ==
    [error EXCEPT !.operation = operation,
                  !.context = IF error.operation # ""
                              THEN Append(@, <<"called", error.operation>>) ELSE @]

Error_persist(error) == [error EXCEPT !.status = ErrorStatus_persist(@)]

Error_is_retryable(error) == ErrorStatus_is_retryable(error.status)

(***************************************************************************)
(* State.  stack/sprev/sres: a Stack driven through its public methods.    *)
(***************************************************************************)
VARIABLES
    stack,      \* Stack.data
    sprev,      \* Stack.data before the last stack operation
    sres        \* the last stack operation: its name, argument and return

VARIABLES
    mem,              \* a Memory
    mres              \* the last memory operation: its name and error kind

VARIABLES
    clock,            \* what current_timestamp() returns
    overflow_checks   \* whether the build panics on arithmetic overflow

VARIABLES
    backend,          \* the SessionBackend behind a SessionManager
    sret              \* the last backend call: its name, error kind and value

VARIABLES
    agent,            \* the Agent
    interp,           \* the Interpreter of the program the agent runs
    hist              \* what was executed, injected and replied so far

VARIABLES
    session,          \* a Session its owner calls add_trace and index_page on
    added             \* the calls made on it: their entries, and how many

VARIABLES
    storage,          \* a Storage
    stored            \* what its callers put into it and did not take out again

VARIABLES
    call              \* the last call of a function of the library: its name,
                      \* its argument and what it returned

VARIABLES
    cli               \* the llcraft process: its subcommand, where it is in
                      \* it, and the code it exited with

stackVars == <<stack, sprev, sres>>
memVars == <<mem, mres>>
envVars == <<clock, overflow_checks>>
sessVars == <<backend, sret>>
agentVars == <<agent, interp, hist>>
libVars == <<session, added, storage, stored, call, cli>>
vars == <<stackVars, memVars, envVars, sessVars, agentVars, libVars>>

NoStackOp == [op |-> "none", arg |-> 0, argv |-> Null, err |-> "Ok", val |-> Null]
NoMemOp == [op |-> "none", err |-> "Ok"]
NoBackendCall == [op |-> "none", err |-> "Ok", val |-> Null]

\* The components a specification does not exercise stay as constructed.
StackIdle == stack = <<>> /\ sprev = <<>> /\ sres = NoStackOp
MemIdle == mem = Memory_new /\ mres = NoMemOp
EnvIdle == clock = 0 /\ overflow_checks = FALSE
SessIdle == backend = MemoryBackend_new /\ sret = NoBackendCall
NoHistory ==
    [executed |-> <<>>,
     injection |-> [live |-> FALSE, at |-> 0, ops |-> <<>>, rest |-> <<>>],
     reply |-> [kind |-> "none"],
     delivered |-> <<>>,
     checkpoints |-> <<>>,
     runs |-> 0]
AgentIdle == agent = Agent_new /\ interp = Interpreter_new(<<>>, 0) /\ hist = NoHistory
NoCalls == [entries |-> <<>>, calls |-> 0]
SessionIdle == session = Session_new(<<>>, <<>>, 0) /\ added = NoCalls
NothingStored == [values |-> <<>>, checkpoints |-> <<>>, used |-> {}]
StorageIdle == storage = Storage_new("memory") /\ stored = NothingStored
NoCall == [fn |-> "none", arg |-> <<>>, ret |-> <<>>]
CallIdle == call = NoCall
\* exit holds the process's exit code once it has exited; failure names
\* the terminal failure it met, if any.
NoCli ==
    [command |-> "none", at |-> "start", max_steps |-> 0, total_steps |-> 0,
     exit |-> <<>>, failure |-> "none"]
CliIdle == cli = NoCli
LibIdle == SessionIdle /\ StorageIdle /\ CallIdle /\ CliIdle

StackValues == {Num(1), Num(2)}

\* Stacks explored: at most MaxDepth values, or a full stack's bulk (as
\* MAX_STACK_SIZE - MaxDepth pushes of the same value leave it) under at most
\* MaxDepth values.
MaxDepth == 2
Filled(n) == [i \in 1..n |-> Num(1)]
InRegion(data) ==
    \/ Len(data) <= MaxDepth
    \/ /\ Len(data) >= MAX_STACK_SIZE - MaxDepth
       /\ SubSeq(data, 1, MAX_STACK_SIZE - MaxDepth) = Filled(MAX_STACK_SIZE - MaxDepth)

\* Arguments of peek_at, dup_n, swap_n, rot and drop_n.
StackArgs == (0..(MaxDepth + 1)) \cup ((MAX_STACK_SIZE - 1)..(MAX_STACK_SIZE + 1))

InitStack ==
    /\ stack \in {<<>>, Filled(MAX_STACK_SIZE - MaxDepth)}
    /\ sprev = stack
    /\ sres = NoStackOp
    /\ MemIdle
    /\ EnvIdle
    /\ SessIdle
    /\ AgentIdle
    /\ LibIdle

StackApply(op, arg, argv, r) ==
    /\ InRegion(r.data)
    /\ stack' = r.data
    /\ sprev' = stack
    /\ sres' = [op |-> op, arg |-> arg, argv |-> argv, err |-> r.err, val |-> r.val]
    /\ UNCHANGED <<memVars, envVars, sessVars, agentVars, libVars>>

Push == \E v \in StackValues : StackApply("push", 0, v, push(stack, v))
Pop == StackApply("pop", 0, Null, pop(stack))
Peek == StackApply("peek", 0, Null, peek(stack))
PeekAt == \E d \in StackArgs : StackApply("peek_at", d, Null, peek_at(stack, d))
Dup == StackApply("dup", 0, Null, dup(stack))
DupN == \E n \in StackArgs : StackApply("dup_n", n, Null, dup_n(stack, n))
Swap == StackApply("swap", 0, Null, swap(stack))
SwapN == \E n \in StackArgs : StackApply("swap_n", n, Null, swap_n(stack, n))
Rot == \E n \in StackArgs : StackApply("rot", n, Null, rot(stack, n))
DropN == \E n \in StackArgs : StackApply("drop_n", n, Null, drop_n(stack, n))
StackClear == StackApply("clear", 0, Null, stack_clear(stack))

NextStack ==
    \/ Push
    \/ Pop
    \/ Peek
    \/ PeekAt
    \/ Dup
    \/ DupN
    \/ Swap
    \/ SwapN
    \/ Rot
    \/ DropN
    \/ StackClear

SpecStack == InitStack /\ [][NextStack]_vars

(***************************************************************************)
(* Stack claims.                                                           *)
(***************************************************************************)
OnFull == Len(sprev) = MAX_STACK_SIZE

\* C7 as stated: the depth never exceeds 256, and push, dup and dup_n on a
\* stack of depth 256 fail with StackOverflow and leave the stack unchanged.
C7_Original ==
    /\ Len(stack) <= MAX_STACK_SIZE
    /\ (sres.op \in {"push", "dup", "dup_n"} /\ OnFull)
         => (sres.err = "StackOverflow" /\ stack = sprev)

\* C7 amended: the depth never exceeds 256; on a stack of depth 256, push, dup
\* and dup_n(n) with n < 256 fail with StackOverflow, dup_n(n) with n >= 256
\* fails with StackUnderflow, and all of them leave the stack unchanged.
C7_DepthBound ==
    /\ Len(stack) <= MAX_STACK_SIZE
    /\ (OnFull /\ (sres.op \in {"push", "dup"}
                   \/ (sres.op = "dup_n" /\ sres.arg < MAX_STACK_SIZE)))
         => (sres.err = "StackOverflow" /\ stack = sprev)
    /\ (OnFull /\ sres.op = "dup_n" /\ sres.arg >= MAX_STACK_SIZE)
         => (sres.err = "StackUnderflow" /\ stack = sprev)

C7_Witness ==
    /\ OnFull
    /\ sres.op = "dup_n"
    /\ sres.arg = MAX_STACK_SIZE - 1
    /\ sres.err = "StackOverflow"

\* The operation would touch a slot that a stack of the given depth lacks.
TouchesMissingSlot(op, arg, depth) ==
    CASE op \in {"pop", "peek", "dup"} -> depth = 0
      [] op \in {"peek_at", "dup_n"} -> arg >= depth
      [] op = "swap" -> depth < 2
      [] op = "swap_n" -> arg >= depth
      [] op \in {"rot", "drop_n"} -> arg > depth
      [] OTHER -> FALSE

\* C8 as stated: StackUnderflow exactly when the operation would touch a
\* missing slot; a failing operation leaves the stack unchanged; an operation
\* that touches no missing slot succeeds.
C8_Original ==
    sres.op # "none" =>
        /\ (sres.err = "StackUnderflow")
             <=> TouchesMissingSlot(sres.op, sres.arg, Len(sprev))
        /\ sres.err # "Ok" => stack = sprev
        /\ ~TouchesMissingSlot(sres.op, sres.arg, Len(sprev)) => sres.err = "Ok"

ZeroDistance == sres.op \in {"swap_n", "rot"} /\ sres.arg = 0

\* C8 amended: StackUnderflow exactly when the operation would touch a
\* missing slot or is swap_n(0) or rot(0); a failing operation leaves the
\* stack unchanged; every other operation succeeds, except push, dup and
\* dup_n on a stack of depth 256, which fail with StackOverflow.
C8_Underflow ==
    sres.op # "none" =>
        LET missing == TouchesMissingSlot(sres.op, sres.arg, Len(sprev)) \/ ZeroDistance
        IN /\ (sres.err = "StackUnderflow") <=> missing
           /\ sres.err # "Ok" => stack = sprev
           /\ ~missing =>
                IF sres.op \in {"push", "dup", "dup_n"} /\ OnFull
                THEN sres.err = "StackOverflow"
                ELSE sres.err = "Ok"

C8_Witness ==
    /\ sres.op = "swap_n"
    /\ sres.arg = 0
    /\ Len(sprev) >= 2
    /\ sres.err = "StackUnderflow"

\* Number of values pushed in a row when the LIFO law is checked.
MaxPushes == 2
PushSeqs == UNION {[1..k -> StackValues] : k \in 0..MaxPushes}

RECURSIVE PushAll(_, _)
PushAll(data, vs) ==
    IF Len(vs) = 0 THEN data ELSE PushAll(push(data, Head(vs)).data, Tail(vs))

\* k successive pops: the values in the order returned, and the data left
\* (the pops are split in two runs to keep the evaluation shallow).
RECURSIVE PopAll(_, _)
PopAll(data, k) ==
    IF k = 0 THEN [vals |-> <<>>, data |-> data]
    ELSE IF k = 1 THEN [vals |-> <<pop(data).val>>, data |-> pop(data).data]
    ELSE LET first == PopAll(data, k \div 2)
             rest == PopAll(first.data, k - (k \div 2))
         IN [vals |-> first.vals \o rest.vals, data |-> rest.data]

Reverse(vs) == [i \in 1..Len(vs) |-> vs[Len(vs) + 1 - i]]

\* C9: the stack is LIFO.  Values pushed successfully come back in reverse
\* order from as many pops, which restore the stack; peek returns what the
\* next pop returns and peek_at(d) what the (d+1)-th next pop returns, both
\* without changing the stack; a successful push is undone by a pop, and a
\* successful pop by pushing the value back.
C9_Lifo ==
    /\ \A vs \in PushSeqs :
         Len(stack) + Len(vs) <= MAX_STACK_SIZE =>
            LET popped == PopAll(PushAll(stack, vs), Len(vs))
            IN popped.vals = Reverse(vs) /\ popped.data = stack
    /\ Len(stack) > 0 =>
         /\ peek(stack).val = pop(stack).val
         /\ peek(stack).data = stack
    /\ \A d \in StackArgs :
         d < Len(stack) =>
            /\ peek_at(stack, d).val = PopAll(stack, d + 1).vals[d + 1]
            /\ peek_at(stack, d).data = stack
    /\ (sres.op = "push" /\ sres.err = "Ok") =>
         (pop(stack).val = sres.argv /\ pop(stack).data = sprev)
    /\ (sres.op = "pop" /\ sres.err = "Ok") =>
         (sres.val = peek(sprev).val /\ push(stack, sres.val).data = sprev)

C9_Witness ==
    /\ sres.op = "pop"
    /\ sres.err = "Ok"
    /\ Len(sprev) >= 2
    /\ sres.val # sprev[Len(sprev) - 1]


(***************************************************************************)
(* Memory as a state machine: one action per Memory method, each the whole *)
(* method.  HandleSetContent is a caller of get_mut using the handle it is *)
(* given to call MemoryPage::set_content.                                  *)
(***************************************************************************)
MemIds == {<<"a">>, PageIdOf(1)}
MemValues == {Num(7), Str(<<"a", "b", "c", "d", "e", "f", "g", "h">>)}

MaxPages == 2
MaxClock == 1

\* The memory n calls of alloc(None) at time 0 leave.
AllocFilled(n) ==
    [pages |-> {MemoryPage_empty(PageIdOf(i), 0) : i \in 0..(n - 1)},
     total_tokens |-> n * estimate_tokens(Null),
     max_tokens |-> DEFAULT_MAX_TOKENS]

NearFull == AllocFilled(MAX_PAGES - 1)

\* NearFull after its total_tokens has been worn down to 1: each round of
\* get_mut("page_0") with set_content of the longer value, then
\* store("page_0", null), takes 1 from total_tokens and leaves the pages as
\* they were.
NearFullDrifted == [NearFull EXCEPT !.total_tokens = 1]

\* The ids of MemIds that NearFull holds.
NamedInNearFull == {PageIdOf(1)}

\* Memories explored: total_tokens within MaxDrift of the sum of the pages'
\* size_tokens or of 0, and at most MaxPages pages, or at least MAX_PAGES - 1
\* pages at time 0 with the pages of NearFull that the operations can name
\* untouched.
MaxDrift == 2
Drift(m) == m.total_tokens - SumSizeTokens(m)
Explored(m, now) ==
    /\ \/ Drift(m) \in (0 - MaxDrift)..MaxDrift
       \/ m.total_tokens \in (0 - MaxDrift)..MaxDrift
    /\ \/ PageCount(m) <= MaxPages
       \/ /\ now = 0
          /\ PageCount(m) >= MAX_PAGES - 1
          /\ \A id \in NamedInNearFull : MemoryPage_empty(id, 0) \in m.pages

InitMemoryFrom(starts) ==
    /\ mem \in starts
    /\ mres = NoMemOp
    /\ clock = 0
    /\ overflow_checks \in BOOLEAN
    /\ StackIdle
    /\ SessIdle
    /\ AgentIdle
    /\ LibIdle

InitMemory == InitMemoryFrom({Memory_new, NearFull})
InitMemoryDrifted == InitMemoryFrom({NearFullDrifted})

MemApply(op, r) ==
    /\ mres.err # "Panic"
    /\ Explored(r.mem, clock)
    /\ mem' = r.mem
    /\ mres' = [op |-> op, err |-> r.err]
    /\ UNCHANGED <<envVars, stackVars, sessVars, agentVars, libVars>>

Store ==
    \E id \in MemIds, v \in MemValues :
        MemApply("store", store(mem, id, v, clock, overflow_checks))

StorePage ==
    \E id \in MemIds, v \in MemValues :
        MemApply("store_page",
                 store_page(mem, MemoryPage_new(id, v, clock), overflow_checks))

Alloc == MemApply("alloc", alloc(mem, NoLabel, clock))

Free == \E id \in MemIds : MemApply("free", free(mem, id))

Copy ==
    \E src \in MemIds, dst \in MemIds :
        MemApply("copy", copy(mem, src, dst, clock, overflow_checks))

MemClear == MemApply("clear", mem_clear(mem))

EvictTargets == {0, 2, 4}

EvictToLimit ==
    /\ PageCount(mem) <= MaxPages
    /\ \E target \in EvictTargets :
          \E r \in evict_to_limit(mem, target) :
              MemApply("evict_to_limit", r)

Load == \E id \in MemIds : MemApply("load", load(mem, id, clock))

GetMut == \E id \in MemIds : MemApply("get_mut", get_mut(mem, id, clock))

HandleSetContent ==
    \E id \in MemIds, v \in MemValues :
        LET h == get_mut(mem, id, clock)
        IN /\ h.err = "Ok"
           /\ MemApply("get_mut.set_content",
                       MemRet([h.mem EXCEPT
                                  !.pages = Insert(@, set_content(get(h.mem, id), v, clock))],
                              "Ok", Null))

Tick ==
    /\ mres.err # "Panic"
    /\ clock < MaxClock
    /\ Explored(mem, clock + 1)
    /\ clock' = clock + 1
    /\ UNCHANGED <<mem, mres, overflow_checks>>
    /\ UNCHANGED <<stackVars, sessVars, agentVars, libVars>>

NextMemory ==
    \/ Store
    \/ StorePage
    \/ Alloc
    \/ Free
    \/ Copy
    \/ MemClear
    \/ EvictToLimit
    \/ Load
    \/ GetMut
    \/ HandleSetContent
    \/ Tick

SpecMemory == InitMemory /\ [][NextMemory]_vars
SpecMemoryDrifted == InitMemoryDrifted /\ [][NextMemory]_vars


(***************************************************************************)
(* C1: after any sequence of Memory operations (store, store_page, alloc,  *)
(* free, copy, clear, evict_to_limit, and content changes through the      *)
(* handle get_mut returns) total_tokens equals the sum of size_tokens over *)
(* the pages held.                                                         *)
(***************************************************************************)
C1_TotalIsSum == mem.total_tokens = SumSizeTokens(mem)

(***************************************************************************)
(* C10: a Memory never holds more than MAX_PAGES pages: with MAX_PAGES     *)
(* pages held, store and store_page of an id not held, and alloc, fail     *)
(* with PageOverflow and leave pages and total_tokens as they were, while  *)
(* store to an id that is held succeeds and reuses that page.              *)
(***************************************************************************)
AtCapacity == PageCount(mem) = MAX_PAGES

C10_RefusesNew ==
    AtCapacity =>
        /\ alloc(mem, NoLabel, clock) = MemRet(mem, "PageOverflow", Null)
        /\ \A id \in MemIds, v \in MemValues :
              ~has_page(mem, id) =>
                  /\ store(mem, id, v, clock, overflow_checks)
                         = MemRet(mem, "PageOverflow", Null)
                  /\ store_page(mem, MemoryPage_new(id, v, clock), overflow_checks)
                         = MemRet(mem, "PageOverflow", Null)

C10_ReusesHeld ==
    AtCapacity =>
        \A id \in MemIds, v \in MemValues :
            has_page(mem, id) =>
                LET r == store(mem, id, v, clock, overflow_checks)
                IN /\ r.err = "Ok"
                   /\ page_ids(r.mem) = page_ids(mem)
                   /\ PageCount(r.mem) = MAX_PAGES
                   /\ get(r.mem, id).content = v
                   /\ get(r.mem, id).created_at = get(mem, id).created_at

C10_PageLimit ==
    /\ PageCount(mem) <= MAX_PAGES
    /\ C10_RefusesNew
    /\ C10_ReusesHeld


(***************************************************************************)
(* A SessionManager over either backend, driven through its public calls   *)
(* with sessions and pages built by Session::new, index_page, add_trace,   *)
(* Memory::store and MemoryPage::new.                                      *)
(***************************************************************************)
SessionIds == {<<"s">>}
SessPageIds == {<<"a", "/", "b">>, <<"a", "_", "b">>}
SessValues == {Num(7)}
SessTask == <<"t">>

\* The milliseconds create_session reads within second now.
MillisOf(now) == {now * 1000}

GeneratedIds == {generate_id(ms) : ms \in UNION {MillisOf(t) : t \in 0..MaxClock}}

PagePool(now) == {MemoryPage_new(id, v, now) : id \in SessPageIds, v \in SessValues}

\* Sessions as a caller builds them up: new, one page indexed, a second page
\* indexed and a trace entry added, a page stored in active_memory.
SessionPool(now) ==
    LET fresh == {Session_new(id, SessTask, now) : id \in SessionIds}
        one == {index_page(x, MemoryPage_new(<<"a", "/", "b">>, Num(7), now), NoSummary) :
                    x \in fresh}
        two == {add_trace(index_page(x, MemoryPage_new(<<"a", "_", "b">>, Num(7), now),
                                     NoSummary),
                          1, <<"N", "O", "P">>, <<"o", "k">>, FALSE) : x \in one}
        active == {[x EXCEPT !.active_memory =
                        store(@, <<"a", "/", "b">>, Num(7), now, FALSE).mem] : x \in two}
    IN fresh \cup one \cup two \cup active

InitSession ==
    /\ backend \in {FileBackend_new, MemoryBackend_new}
    /\ sret = NoBackendCall
    /\ StackIdle
    /\ MemIdle
    /\ EnvIdle
    /\ AgentIdle
    /\ LibIdle

SessApply(op, r) ==
    /\ backend' = r.backend
    /\ sret' = [op |-> op, err |-> r.err, val |-> r.val]
    /\ UNCHANGED <<stackVars, memVars, envVars, agentVars, libVars>>

CallCreateSession ==
    \E ms \in MillisOf(clock), io_ok \in BOOLEAN :
        SessApply("create_session", create_session(backend, SessTask, ms, clock, io_ok))

CallSaveSession ==
    \E s \in SessionPool(clock), io_ok \in BOOLEAN :
        SessApply("save_session", save_session(backend, s, io_ok))

CallLoadSession ==
    \E id \in SessionIds \cup GeneratedIds :
        SessApply("load_session", load_session(backend, id))

CallSavePage ==
    \E id \in SessionIds, p \in PagePool(clock), io_ok \in BOOLEAN :
        SessApply("save_page", save_page(backend, id, p, io_ok))

CallLoadPage ==
    \E id \in SessionIds, page_id \in SessPageIds :
        SessApply("load_page", load_page(backend, id, page_id))

CallListSessions ==
    SessApply("list_sessions", BackRet(backend, "Ok", list_sessions(backend)))

CallDeleteSession ==
    \E id \in SessionIds \cup GeneratedIds :
        SessApply("delete_session", delete_session(backend, id))

SessTick ==
    /\ clock < MaxClock
    /\ clock' = clock + 1
    /\ UNCHANGED <<stackVars, memVars, sessVars, agentVars, overflow_checks, libVars>>

NextSession ==
    \/ CallCreateSession
    \/ CallSaveSession
    \/ CallLoadSession
    \/ CallSavePage
    \/ CallLoadPage
    \/ CallListSessions
    \/ CallDeleteSession
    \/ SessTick

SpecSession == InitSession /\ [][NextSession]_vars


(***************************************************************************)
(* C6: on either backend, save_session(s) followed by load_session(s.id)   *)
(* returns a session whose metadata, page_index and trace_summary equal    *)
(* those of s, and save_page(s.id, p) followed by load_page(s.id, p.id)    *)
(* returns a page equal to p.  Stated of every backend state reached and   *)
(* every session and page of the pools.                                    *)
(***************************************************************************)
C6_RoundTrip ==
    /\ \A s \in SessionPool(clock), io_ok \in BOOLEAN :
          LET saved == save_session(backend, s, io_ok)
              loaded == load_session(saved.backend, s.metadata.id)
          IN saved.err = "Ok" =>
                /\ loaded.err = "Ok"
                /\ loaded.val.metadata = s.metadata
                /\ loaded.val.page_index = s.page_index
                /\ loaded.val.trace_summary = s.trace_summary
    /\ \A id \in SessionIds, p \in PagePool(clock), io_ok \in BOOLEAN :
          LET saved == save_page(backend, id, p, io_ok)
              loaded == load_page(saved.backend, id, p.id)
          IN saved.err = "Ok" => loaded.err = "Ok" /\ loaded.val = p

\* A session with an index and a trace has been loaded back from files that
\* also hold a page saved under an id that sanitizing changes.
C6_Witness ==
    /\ backend.kind = "file"
    /\ sret.op = "load_session"
    /\ sret.err = "Ok"
    /\ DOMAIN sret.val.page_index = SessPageIds
    /\ sret.val.trace_summary # <<>>
    /\ \E id \in SessionIds :
          /\ page_path(id, <<"a", "/", "b">>) \in DOMAIN backend.files
          /\ load_page(backend, id, <<"a", "/", "b">>).err = "Ok"
          /\ load_page(backend, id, <<"a", "/", "b">>).val.id = <<"a", "/", "b">>

(***************************************************************************)
(* An agent driving an interpreter: with_session, run_program and its loop *)
(* over the results of run(), over a file backend.  The program, the step  *)
(* limit and every reply of the provider are chosen freely; hist keeps,    *)
(* for the properties below, the opcodes executed with the pc each was     *)
(* fetched at, the last injection and the last reply of the provider.      *)
(***************************************************************************)
MaxStepLimit == 6
MaxRuns == 2
StepLimits == 1..MaxStepLimit

PageR == <<"r">>
SlashPage == <<"a", "/", "b">>
UnderscorePage == <<"a", "_", "b">>

CognitiveOps ==
    {[op |-> "INFER", prompt |-> <<"q">>, context |-> <<>>, store_to |-> PageR],
     [op |-> "PLAN", goal |-> <<"q">>, context |-> <<>>, store_to |-> PageR],
     [op |-> "REFLECT", question |-> <<"q">>, include_trace |-> FALSE, store_to |-> PageR]}

Programs ==
    LET label == [op |-> "LABEL", name |-> <<"l">>]
        jump == [op |-> "JUMP", target |-> <<"l">>]
        inject == [op |-> "INJECT", prompt |-> <<"g">>, store_to |-> <<"_">>]
        slash == [op |-> "STORE", page_id |-> SlashPage, data |-> Num(7)]
        under == [op |-> "STORE", page_id |-> UnderscorePage, data |-> Num(8)]
        complete == [op |-> "COMPLETE", result |-> Null]
        batch(prompts, store_combined) ==
            [op |-> "INFER_BATCH", prompts |-> prompts, context |-> <<>>,
             store_prefix |-> <<"o">>, store_combined |-> store_combined]
        checkpoint_at(name) == [op |-> "CHECKPOINT", name |-> name]
        rollback(name) == [op |-> "ROLLBACK", name |-> name]
        push_one == [op |-> "PUSH", value |-> Num(1)]
        set_goal == [op |-> "SET_REG", reg |-> "goal", value |-> Str(<<"g">>)]
    IN {<<label, jump>>,
        <<slash, label, label, jump>>,
        <<checkpoint_at(<<"a", "/", "b">>), push_one, slash, rollback(<<"a", "/", "b">>)>>,
        <<checkpoint_at(<<"a", "/", "b">>), set_goal, rollback(<<"a", "_", "b">>)>>,
        <<set_goal, checkpoint_at(<<"a", "/", "b">>), push_one,
          checkpoint_at(<<"a", "_", "b">>), under, rollback(<<"a", "/", "b">>), complete>>,
        <<batch(<<<<"q">>, <<"w">>>>, <<"c">>), complete>>,
        <<batch(<<<<"q">>>>, NoLabel), complete>>,
        <<batch(<<>>, NoLabel), complete>>,
        <<slash, under, complete>>,
        <<label, inject, under, complete>>,
        <<[op |-> "FAIL", error |-> <<"e">>]>>,
        <<[op |-> "JUMP", target |-> <<"x">>]>>,
        <<[op |-> "NOP"]>>}
       \cup {<<c, slash, complete>> : c \in CognitiveOps}
       \cup {<<label, c, jump>> : c \in CognitiveOps}

\* What the provider can come back with for a prompt: an error, a reply
\* without content, or a content string.
LlmReplies ==
    {[kind |-> "error"], [kind |-> "empty"], [kind |-> "text", content |-> <<"h", "i">>]}

\* What it can come back with for Inject: an error, content parse_opcodes
\* rejects, or content that parses to a sequence of opcodes.
InjectReplies ==
    LET one == [op |-> "STORE", page_id |-> <<"x">>, data |-> Num(1)]
        two == [op |-> "STORE", page_id |-> <<"y">>, data |-> Num(2)]
    IN {[kind |-> "error"], [kind |-> "text", content |-> <<"h", "i">>]}
       \cup {[kind |-> "opcodes", opcodes |-> ops] :
                ops \in {<<>>, <<one, two>>,
                         <<one, [op |-> "COMPLETE", result |-> Str(<<"i", "n", "j">>)]>>,
                         <<[op |-> "FAIL", error |-> <<"i", "n", "j">>]>>,
                         <<[op |-> "INFER", prompt |-> <<"q">>, context |-> <<>>,
                            store_to |-> PageR], two>>}}

\* What an agent opened on the session of an earlier one goes on to run:
\* a program that fetches a page the earlier one left.
Followups ==
    {<<[op |-> "LOAD_PAGE", page_id |-> UnderscorePage],
       [op |-> "COMPLETE", result |-> Null]>>}

\* The storage an interpreter is built over: either backend, for the
\* programs that use it.
StorageKinds(code) ==
    IF \E i \in 1..Len(code) : code[i].op \in {"CHECKPOINT", "ROLLBACK"}
    THEN {"memory", "file"} ELSE {"memory"}

\* The orders a HashMap over the keys can be walked in.
Orders(keys) ==
    {f \in [1..Cardinality(keys) -> keys] : \A i, j \in DOMAIN f : f[i] = f[j] => i = j}

InitAgent ==
    /\ AgentIdle
    /\ LibIdle
    /\ backend = FileBackend_new
    /\ sret = NoBackendCall
    /\ StackIdle
    /\ MemIdle
    /\ EnvIdle

AgentFrame == UNCHANGED <<stackVars, memVars, envVars, sret, libVars>>

Returned(kind) ==
    /\ agent.at = "loop"
    /\ ~interp.running
    /\ interp.result.kind = kind

WithSession ==
    /\ agent.at = "new"
    /\ \E session_id \in SessionIds \cup {NoLabel}, ms \in MillisOf(clock), io_ok \in BOOLEAN :
          LET r == with_session(agent, backend, session_id, ms, clock, io_ok)
          IN /\ agent' = IF r.err = "Ok" THEN [r.agent EXCEPT !.at = "ready"]
                         ELSE abort(agent, <<r.err>>)
             /\ backend' = r.backend
    /\ UNCHANGED <<interp, hist>>
    /\ AgentFrame

\* Interpreter::new, resume_session when a session is bound, and the first
\* call of run().
RunProgram ==
    /\ agent.at \in {"new", "ready", "resumed"}
    /\ hist.runs < MaxRuns
    /\ \E code \in (IF agent.at = "resumed" THEN Followups ELSE Programs),
          step_limit \in (IF agent.at = "resumed" THEN {MaxStepLimit} ELSE StepLimits) :
       \E kind \in StorageKinds(code) :
          LET ip == [Interpreter_new(code, step_limit) EXCEPT !.storage = Storage_new(kind)]
              resumed == load_session(backend, agent.session_id)
          IN IF agent.session_id # NoLabel /\ resumed.err # "Ok"
             THEN /\ agent' = abort(agent, <<resumed.err>>)
                  /\ interp' = ip
             ELSE /\ agent' = [agent EXCEPT !.at = "loop"]
                  /\ interp' = [ip EXCEPT !.session_id = agent.session_id,
                                          !.running = TRUE]
    /\ hist' = [NoHistory EXCEPT !.runs = hist.runs + 1]
    /\ UNCHANGED backend
    /\ AgentFrame

\* What a checkpoint is to bring back.
MachineState(ip) ==
    [memory |-> ip.memory, stack |-> ip.stack, registers |-> ip.registers, pc |-> ip.pc]

Step ==
    /\ agent.at = "loop"
    /\ interp.running
    /\ \E n \in step(interp, clock, overflow_checks, backend) :
          /\ interp' = n
          /\ hist' = IF n.step_count > interp.step_count
                     THEN LET opcode == interp.code[interp.pc + 1]
                          IN [hist EXCEPT
                                !.executed = Append(@, [pc |-> interp.pc, opcode |-> opcode]),
                                !.checkpoints =
                                    IF opcode.op = "CHECKPOINT"
                                    THEN (opcode.name :> MachineState(interp)) @@ @
                                    ELSE @]
                     ELSE hist
    /\ UNCHANGED <<agent, backend>>
    /\ AgentFrame

OnComplete ==
    /\ Returned("Complete")
    /\ LET pages == all_pages(interp)
           traced == extend_trace(agent, interp)
       IN \E order \in Orders(DOMAIN pages), writes_ok \in 0..(Cardinality(DOMAIN pages) + 1) :
             LET r == save_to_session(traced, backend, pages, order, clock, writes_ok)
             IN /\ agent' = IF r.err # "Ok" THEN abort(r.agent, <<r.err>>)
                            ELSE [r.agent EXCEPT
                                    !.at = "done",
                                    !.outcome = [kind |-> "Ok", error |-> NoLabel,
                                                 result |-> interp.result.value,
                                                 pages |-> pages]]
                /\ backend' = r.backend
    /\ UNCHANGED <<interp, hist>>
    /\ AgentFrame

OnFailed ==
    /\ Returned("Failed")
    /\ agent' = abort(extend_trace(agent, interp), interp.result.value)
    /\ UNCHANGED <<interp, hist, backend>>
    /\ AgentFrame

\* run() itself returned an error
OnRunError ==
    /\ Returned("Error")
    /\ agent' = abort(agent, interp.result.value)
    /\ UNCHANGED <<interp, hist, backend>>
    /\ AgentFrame

OnStepLimitExceeded ==
    /\ Returned("StepLimitExceeded")
    /\ agent' = on_step_limit(agent, interp)
    /\ UNCHANGED <<interp, hist, backend>>
    /\ AgentFrame

OnNeedsLlm ==
    /\ Returned("NeedsLlm")
    /\ interp.result.request.request_type \in {"INFER", "PLAN", "REFLECT"}
    /\ \E reply \in LlmReplies :
          LET r == answer_llm(interp, interp.result.request, reply.content, clock,
                              overflow_checks)
          IN /\ hist' = [hist EXCEPT !.reply = reply]
             /\ IF reply.kind # "text"
                THEN /\ agent' = abort(agent, IF reply.kind = "error"
                                               THEN <<"LLM error">>
                                               ELSE <<"Empty LLM response">>)
                     /\ interp' = interp
                ELSE IF r.err # "Ok"
                THEN agent' = abort(agent, <<r.err>>) /\ interp' = interp
                ELSE /\ agent' = agent
                     /\ interp' = [r.ip EXCEPT !.running = TRUE, !.result = NoResult]
    /\ UNCHANGED backend
    /\ AgentFrame

OnInject ==
    /\ Returned("NeedsLlm")
    /\ interp.result.request.request_type = "INJECT"
    /\ \E reply \in InjectReplies :
          IF reply.kind # "opcodes"
          THEN /\ agent' = abort(agent, IF reply.kind = "error" THEN <<"LLM error">>
                                        ELSE <<"Failed to parse opcodes">>)
               /\ interp' = interp
               /\ hist' = [hist EXCEPT !.reply = reply]
          ELSE LET r == answer_inject(interp, reply.opcodes)
               IN /\ agent' = agent
                  /\ interp' = [r.ip EXCEPT !.running = TRUE, !.result = NoResult]
                  /\ hist' = [hist EXCEPT !.reply = reply,
                                          !.injection =
                                              [live |-> TRUE, at |-> Len(hist.executed),
                                               ops |-> reply.opcodes,
                                               rest |-> SubSeq(interp.code, interp.pc + 1,
                                                               Len(interp.code))]]
    /\ UNCHANGED backend
    /\ AgentFrame

OnInferBatch ==
    /\ Returned("NeedsLlm")
    /\ interp.result.request.request_type = "INFER_BATCH"
    /\ LET request == interp.result.request
       IN \E replies \in [1..Len(request.prompts) -> LlmReplies] :
             LET results == handle_infer_batch_request(request.prompts, replies)
                 r == answer_infer_batch(interp, request, results, clock, overflow_checks)
             IN /\ hist' = [hist EXCEPT !.reply = [kind |-> "batch", replies |-> replies],
                                         !.delivered = r.delivered]
                /\ IF r.err # "Ok"
                   THEN agent' = abort(agent, <<r.err>>) /\ interp' = interp
                   ELSE /\ agent' = agent
                        /\ interp' = [r.ip EXCEPT !.running = TRUE, !.result = NoResult]
    /\ UNCHANGED backend
    /\ AgentFrame

\* A later agent opened on the session of a finished one.
Reopen ==
    /\ agent.at = "done"
    /\ agent.session_id # NoLabel
    /\ \E ms \in MillisOf(clock) :
          LET r == with_session(Agent_new, backend, agent.session_id, ms, clock, TRUE)
          IN /\ agent' = [r.agent EXCEPT !.at = "resumed"]
             /\ backend' = r.backend
    /\ UNCHANGED <<interp, hist>>
    /\ AgentFrame

NextAgent ==
    \/ WithSession
    \/ RunProgram
    \/ Step
    \/ OnComplete
    \/ OnFailed
    \/ OnRunError
    \/ OnStepLimitExceeded
    \/ OnNeedsLlm
    \/ OnInject
    \/ OnInferBatch
    \/ Reopen

SpecAgent == InitAgent /\ [][NextAgent]_vars

\* A call of run() that is under way goes on to its next opcode: the
\* interpreter loop is one thread of control that nothing preempts.
SpecAgentFair == SpecAgent /\ WF_vars(Step)

(***************************************************************************)
(* C2: suspension round trip.  The opcode executed next after an Infer,    *)
(* Plan or Reflect is the one at the following position (the cognitive     *)
(* opcode is not fetched a second time on resume), and when the agent has  *)
(* answered the request and run() is entered again, the page the opcode    *)
(* names in store_to holds exactly the response handed over.               *)
(***************************************************************************)
SuspendsForAnswer(i) == hist.executed[i].opcode.op \in {"INFER", "PLAN", "REFLECT"}

C2_RoundTrip ==
    /\ \A i \in 1..(Len(hist.executed) - 1) :
          SuspendsForAnswer(i) => hist.executed[i + 1].pc = hist.executed[i].pc + 1
    /\ \A i \in {Len(hist.executed)} \ {0} :
          (SuspendsForAnswer(i) /\ interp.running) =>
             LET r == hist.executed[i].opcode.store_to
                 v == Obj(<<<<<<"r", "e", "s", "p", "o", "n", "s", "e">>,
                              Str(hist.reply.content)>>,
                            <<<<"s", "u", "c", "c", "e", "s", "s">>, Bool(TRUE)>>>>)
             IN /\ interp.pc = hist.executed[i].pc + 1
                /\ interp.pending = NoRequest
                /\ has_page(interp.memory, r)
                /\ get(interp.memory, r).content = v

\* A Plan was answered and the run went on to Complete with the answer in r.
C2_Witness ==
    /\ agent.at = "done"
    /\ agent.outcome.kind = "Ok"
    /\ Len(hist.executed) = 3
    /\ hist.executed[1].opcode.op = "PLAN"
    /\ hist.executed[2].pc = 1
    /\ has_page(interp.memory, PageR)
    /\ get(interp.memory, PageR).content[1] = "obj"

(***************************************************************************)
(* C3: injection.  After inject_opcodes(ops) for an INJECT, the opcodes    *)
(* executed from then on are, in order, ops and then the opcodes that      *)
(* followed the INJECT, up to the first of them that ends the run or       *)
(* leaves the straight line (a terminal opcode, a jump, another INJECT);   *)
(* and nothing is executed after a terminal opcode.                        *)
(***************************************************************************)
StraightLine(ops) ==
    LET ends == {i \in 1..Len(ops) : ops[i].op \in {"COMPLETE", "FAIL", "JUMP", "INJECT"}}
    IN IF ends = {} THEN ops
       ELSE SubSeq(ops, 1, CHOOSE i \in ends : \A j \in ends : i <= j)

C3_Injection ==
    /\ \A i \in 1..(Len(hist.executed) - 1) :
          hist.executed[i].opcode.op \notin {"COMPLETE", "FAIL"}
    /\ hist.injection.live =>
          LET expected == StraightLine(hist.injection.ops \o hist.injection.rest)
              at == hist.injection.at
          IN /\ hist.executed[at].opcode.op = "INJECT"
             /\ \A k \in 1..Len(expected) :
                   at + k <= Len(hist.executed) =>
                       hist.executed[at + k].opcode = expected[k]

\* Two opcodes were injected and the run went through them and then through
\* the two opcodes behind the INJECT, to Complete.
C3_Witness ==
    /\ hist.injection.live
    /\ Len(hist.injection.ops) = 2
    /\ Len(hist.injection.rest) = 2
    /\ Len(hist.executed) = hist.injection.at + 4
    /\ hist.executed[hist.injection.at + 2].opcode.op = "STORE"
    /\ interp.result.kind = "Complete"
    /\ interp.result.value = Null

(***************************************************************************)
(* C4: step limit.  No more than step_limit opcodes are executed, over all *)
(* calls of run() on the interpreter; a call of run() that finds           *)
(* step_count at the limit returns StepLimitExceeded without executing;    *)
(* every call of run() returns; and when the agent has returned the step   *)
(* limit error its accumulated trace has an entry for every opcode         *)
(* executed.                                                               *)
(***************************************************************************)
C4_Bounded ==
    /\ interp.step_count <= interp.step_limit
    /\ Len(hist.executed) = interp.step_count
    /\ Len(interp.trace) = interp.step_count
    /\ interp.result.kind = "StepLimitExceeded" => interp.step_count = interp.step_limit
    /\ (agent.at = "done" /\ interp.result.kind = "StepLimitExceeded") =>
          /\ agent.outcome.kind = "Err"
          /\ agent.outcome.error = StepLimitMessage
          /\ agent.full_trace = interp.trace
          /\ \A i \in 1..Len(agent.full_trace) :
                agent.full_trace[i].opcode = hist.executed[i].opcode.op

C4_AtLimit ==
    (interp.running /\ interp.step_count >= interp.step_limit) =>
        /\ ~interp'.running
        /\ interp'.result.kind = "StepLimitExceeded"
        /\ interp'.step_count = interp.step_count

\* C4: the bound on the opcodes executed and the trace kept, the return of
\* StepLimitExceeded at the limit, and the return of every call of run().
C4_StepLimit ==
    /\ []C4_Bounded
    /\ [][C4_AtLimit]_vars
    /\ (interp.running ~> ~interp.running)

\* LABEL l; JUMP l ran into the largest step limit and the agent returned.
C4_Witness ==
    /\ agent.at = "done"
    /\ interp.result.kind = "StepLimitExceeded"
    /\ Len(interp.code) = 2
    /\ interp.code[2].op = "JUMP"
    /\ interp.step_limit = MaxStepLimit
    /\ Len(agent.full_trace) = MaxStepLimit

(***************************************************************************)
(* C5: when run_program on a bound session has returned Ok, every page of  *)
(* the interpreter's memory can be loaded from the session backend under   *)
(* its id with its content, has an entry in the persisted page_index, and  *)
(* has an entry in the agent's page_index with the same tokens and         *)
(* summary; an agent opened later on the session has the page_index the    *)
(* persisted session has.                                                  *)
(***************************************************************************)
C5_Indexed ==
    /\ (agent.at = "done" /\ agent.outcome.kind = "Ok" /\ agent.session_id # NoLabel) =>
          LET persisted == load_session(backend, agent.session_id).val.page_index
          IN \A id \in page_ids(interp.memory) :
                /\ id \in DOMAIN persisted
                /\ id \in DOMAIN agent.page_index
                /\ agent.page_index[id].tokens = persisted[id].tokens
                /\ agent.page_index[id].summary = persisted[id].summary
    /\ agent.at = "resumed" =>
          agent.page_index = load_session(backend, agent.session_id).val.page_index

C5_Saved ==
    (agent.at = "done" /\ agent.outcome.kind = "Ok" /\ agent.session_id # NoLabel) =>
        \A id \in page_ids(interp.memory) :
            LET loaded == load_page(backend, agent.session_id, id)
            IN /\ loaded.err = "Ok"
               /\ loaded.val.id = id
               /\ loaded.val.content = get(interp.memory, id).content

\* C5: after a run that returned Ok on a bound session, every page of the
\* interpreter's memory is indexed, in the session and in the agent, and can
\* be loaded back from the backend under its own id.
C5_Flushed == C5_Indexed /\ C5_Saved

(***************************************************************************)
(* C11: for a memory whose HashMap yields its pages in any one order,      *)
(* evict_to_limit(target) returns the shortest prefix of pages_by_lru()    *)
(* whose removal brings total_tokens to at most target, leaves the pages   *)
(* it does not return as they were, and is one of the outcomes of          *)
(* evict_to_limit.                                                         *)
(***************************************************************************)
\* total_tokens after the first k pages of lru are freed
RECURSIVE TotalAfter(_, _, _)
TotalAfter(m, lru, k) ==
    IF k = 0 THEN m.total_tokens
    ELSE UsizeSaturatingSub(TotalAfter(m, lru, k - 1), get(m, lru[k]).size_tokens)

EvictsLruPrefix(m, target) ==
    \A iter \in Orders(page_ids(m)) :
        LET lru == pages_by_lru(m, iter)
            r == EvictInOrder(m, target, iter, <<>>)
            n == Len(r.val)
        IN /\ r \in evict_to_limit(m, target)
           /\ r.val = SubSeq(lru, 1, n)
           /\ ~UsizeGt(TotalAfter(m, lru, n), target)
           /\ \A k \in 0..(n - 1) : UsizeGt(TotalAfter(m, lru, k), target)
           /\ r.mem.pages = {p \in m.pages : \A i \in 1..n : r.val[i] # p.id}

C11_EvictsLruPrefix ==
    PageCount(mem) <= MaxPages => \A target \in EvictTargets : EvictsLruPrefix(mem, target)

\* The same, for the memories whose total_tokens is the sum of their pages.
C11_Undrifted ==
    (PageCount(mem) <= MaxPages /\ Drift(mem) = 0) =>
        \A target \in EvictTargets : EvictsLruPrefix(mem, target)

(***************************************************************************)
(* C12: InferBatch.  When the agent has answered an InferBatch of n        *)
(* prompts and run() is entered again, it has delivered, in this order,    *)
(* the result of prompt i, which carries index i and the reply to prompt   *)
(* i, to page {store_prefix}_{i} for i = 0..n-1, and then, if              *)
(* store_combined is set, {results, count, success} with the n results in  *)
(* input order and count = n to that page; the pages hold what was         *)
(* delivered, and no opcode was executed in between.                       *)
(***************************************************************************)
Field(obj, key) ==
    LET at == {k \in 1..Len(obj[2]) : obj[2][k][1] = key}
    IN IF obj[1] # "obj" \/ at = {} THEN <<"absent">> ELSE obj[2][CHOOSE k \in at : TRUE][2]

ResultOf(value, reply, i) ==
    /\ Field(value, <<"i", "n", "d", "e", "x">>) = Num(i)
    /\ Field(value, <<"s", "u", "c", "c", "e", "s", "s">>) = Bool(reply.kind # "error")
    /\ reply.kind = "text" =>
          Field(value, <<"r", "e", "s", "p", "o", "n", "s", "e">>) = Str(reply.content)
    /\ reply.kind = "empty" =>
          Field(value, <<"r", "e", "s", "p", "o", "n", "s", "e">>) = Str(<<>>)

BatchAnswered ==
    /\ Len(hist.executed) > 0
    /\ hist.executed[Len(hist.executed)].opcode.op = "INFER_BATCH"
    /\ interp.running

C12_InferBatch ==
    BatchAnswered =>
        LET last == hist.executed[Len(hist.executed)]
            op == last.opcode
            n == Len(op.prompts)
            d == hist.delivered
            page(i) == op.store_prefix \o <<"_">> \o DecimalDigits(i)
        IN /\ hist.reply.kind = "batch"
           /\ interp.pc = last.pc + 1
           /\ Len(d) = n + (IF op.store_combined = NoLabel THEN 0 ELSE 1)
           /\ \A i \in 0..(n - 1) :
                 /\ d[i + 1].page = page(i)
                 /\ ResultOf(d[i + 1].value, hist.reply.replies[i + 1], i)
                 /\ has_page(interp.memory, page(i))
                 /\ get(interp.memory, page(i)).content = d[i + 1].value
           /\ op.store_combined # NoLabel =>
                 LET c == d[n + 1].value
                 IN /\ d[n + 1].page = op.store_combined
                    /\ Field(c, <<"r", "e", "s", "u", "l", "t", "s">>)
                          = Arr([i \in 1..n |-> d[i].value])
                    /\ Field(c, <<"c", "o", "u", "n", "t">>) = Num(n)
                    /\ Field(c, <<"s", "u", "c", "c", "e", "s", "s">>) = Bool(TRUE)
                    /\ has_page(interp.memory, op.store_combined)
                    /\ get(interp.memory, op.store_combined).content = c

\* A batch of two prompts, the first of which failed, was answered with
\* its combined page, and the run went on to Complete.
C12_Witness ==
    /\ agent.at = "done"
    /\ agent.outcome.kind = "Ok"
    /\ Len(hist.executed) = 2
    /\ hist.executed[1].opcode.op = "INFER_BATCH"
    /\ Len(hist.delivered) = 3
    /\ hist.reply.replies[1].kind = "error"
    /\ hist.reply.replies[2].kind = "text"
    /\ has_page(interp.memory, <<"o", "_", "1">>)
    /\ has_page(interp.memory, <<"c">>)

(***************************************************************************)
(* C13: failures of cognitive opcodes.  When the provider call made for an *)
(* Infer, Plan, Reflect or Inject, or for any prompt of an InferBatch, has *)
(* failed, or the reply to an Inject did not parse, the run has been       *)
(* aborted with an error: the interpreter is not resumed, so no further    *)
(* opcode is executed.                                                     *)
(***************************************************************************)
Aborted ==
    /\ ~interp.running
    /\ interp.result.kind = "NeedsLlm"
    /\ agent.at = "done" => agent.outcome.kind = "Err"

\* C13 for the opcodes that make one provider call.
C13_SingleAborts ==
    (/\ hist.reply.kind \in {"error", "empty", "text"}
     /\ hist.executed[Len(hist.executed)].opcode.op \in {"INFER", "PLAN", "REFLECT", "INJECT"}
     /\ hist.executed[Len(hist.executed)].opcode.op = "INJECT" \/ hist.reply.kind # "text")
        => Aborted

\* C13: as stated, the prompts of an InferBatch included.
C13_CognitiveFailureAborts ==
    /\ C13_SingleAborts
    /\ (/\ hist.reply.kind = "batch"
        /\ \E i \in DOMAIN hist.reply.replies : hist.reply.replies[i].kind = "error")
          => Aborted

(***************************************************************************)
(* C14: a failure to persist is not a failure of the run.  When the        *)
(* interpreter has returned Complete and run_program has returned, the     *)
(* caller has the result and the pages of the run, whether or not the      *)
(* writes to the session succeeded.                                        *)
(***************************************************************************)
C14_FlushFailureKeepsResult ==
    (agent.at = "done" /\ interp.result.kind = "Complete") =>
        /\ agent.outcome.result = interp.result.value
        /\ agent.outcome.pages = all_pages(interp)

\* The same, for the runs whose writes all succeeded.
C14_FlushedKeepsResult ==
    (agent.at = "done" /\ interp.result.kind = "Complete" /\ agent.outcome.kind = "Ok") =>
        /\ agent.outcome.result = interp.result.value
        /\ agent.outcome.pages = all_pages(interp)

(***************************************************************************)
(* C15: the trace of a run that failed.  When a run bound to a session has *)
(* ended in Failed or StepLimitExceeded and run_program has returned the   *)
(* error, the session as the backend holds it has the entries of the       *)
(* run's trace, in order, at the end of its trace_summary.                 *)
(***************************************************************************)
EndedInError ==
    /\ agent.at = "done"
    /\ agent.session_id # NoLabel
    /\ interp.result.kind \in {"Failed", "StepLimitExceeded"}

C15_TracePersisted ==
    EndedInError =>
        LET s == load_session(backend, agent.session_id)
            n == Len(interp.trace)
        IN /\ s.err = "Ok"
           /\ Len(s.val.trace_summary) >= n
           /\ \A i \in 1..n :
                 LET e == s.val.trace_summary[Len(s.val.trace_summary) - n + i]
                 IN e.step = interp.trace[i].step /\ e.opcode = interp.trace[i].opcode

\* What the agent does keep of it: the entries are at the end of full_trace.
C15_TraceKept ==
    EndedInError =>
        /\ agent.outcome.kind = "Err"
        /\ Len(agent.full_trace) >= Len(interp.trace)
        /\ SubSeq(agent.full_trace, Len(agent.full_trace) - Len(interp.trace) + 1,
                  Len(agent.full_trace)) = interp.trace

(***************************************************************************)
(* C16: the trace.  When a run has ended in Complete or Failed and         *)
(* run_program has returned, the interpreter's trace has exactly one entry *)
(* for each opcode executed, in the order of execution and with strictly   *)
(* increasing step numbers (an opcode that suspended and was resumed has   *)
(* one entry), and the agent's accumulated trace ends with these entries,  *)
(* none dropped and none reordered.                                        *)
(***************************************************************************)
C16_TraceComplete ==
    (agent.at = "done" /\ interp.result.kind \in {"Complete", "Failed"}) =>
        LET n == Len(interp.trace)
            m == Len(agent.full_trace)
        IN /\ n = Len(hist.executed)
           /\ \A i \in 1..n : interp.trace[i].opcode = hist.executed[i].opcode.op
           /\ \A i \in 1..(n - 1) : interp.trace[i].step < interp.trace[i + 1].step
           /\ m >= n
           /\ SubSeq(agent.full_trace, m - n + 1, m) = interp.trace

\* An Infer suspended, was answered and resumed, and the run completed:
\* three opcodes, three entries.
C16_Witness ==
    /\ agent.at = "done"
    /\ interp.result.kind = "Complete"
    /\ Len(hist.executed) = 3
    /\ hist.executed[1].opcode.op = "INFER"
    /\ Len(agent.full_trace) = 3
    /\ agent.full_trace[1].opcode = "INFER"
    /\ agent.full_trace[3].opcode = "COMPLETE"

(***************************************************************************)
(* C17: checkpoints.  Executing Rollback(n) after a Checkpoint(n), with    *)
(* whatever was executed in between, leaves memory, stack, registers and   *)
(* pc as they were when the last Checkpoint(n) was executed; Rollback of a *)
(* name no Checkpoint was executed for fails and leaves them as they are.  *)
(***************************************************************************)
AtRollback ==
    /\ agent.at = "loop"
    /\ interp.running
    /\ interp.pc < Len(interp.code)
    /\ interp.step_count < interp.step_limit
    /\ interp.code[interp.pc + 1].op = "ROLLBACK"

RollbackRestores ==
    LET name == interp.code[interp.pc + 1].name
    IN IF name \in DOMAIN hist.checkpoints
       THEN MachineState(interp') = hist.checkpoints[name]
       ELSE /\ interp'.result.kind = "Error"
            /\ MachineState(interp') = MachineState(interp)

C17_RollbackInMemory ==
    [][(AtRollback /\ interp.storage.kind = "memory") => RollbackRestores]_vars

(***************************************************************************)
(* C18: validation at load.  A program in which a Jump names a label that  *)
(* no Label defines, or in which two Labels have the same name, is         *)
(* rejected when it is loaded: run_program returns an error and none of    *)
(* its opcodes is executed.                                                *)
(***************************************************************************)
LabelsResolve(code) ==
    /\ \A i \in 1..Len(code) :
          code[i].op = "JUMP" => \E j \in 1..Len(code) :
                                    code[j].op = "LABEL" /\ code[j].name = code[i].target
    /\ \A i, j \in 1..Len(code) :
          (code[i].op = "LABEL" /\ code[j].op = "LABEL" /\ code[i].name = code[j].name)
              => i = j

C18_RejectedAtLoad ==
    (agent.at # "new" /\ ~LabelsResolve(interp.code)) =>
        /\ ~interp.running
        /\ interp.step_count = 0
        /\ agent.at = "done" => agent.outcome.kind = "Err"

(***************************************************************************)
(* C19: suspension points.  A call of run() returns NeedsLlm only from an  *)
(* Infer, Plan, Reflect, Inject, InferBatch or LoadPage at pc, with the    *)
(* request of that opcode; at every other opcode the call goes on to the   *)
(* next opcode or returns Complete, Failed, StepLimitExceeded or an error. *)
(***************************************************************************)
YieldOps == {"INFER", "PLAN", "REFLECT", "INJECT", "INFER_BATCH", "LOAD_PAGE"}

YieldsOnlyAtYieldOps ==
    (interp.running /\ interp'.result.kind = "NeedsLlm") =>
        /\ interp.pc < Len(interp.code)
        /\ interp.code[interp.pc + 1].op \in YieldOps
        /\ interp'.result.request.request_type = interp.code[interp.pc + 1].op
        /\ ~interp'.running

OthersDoNotYield ==
    (/\ interp.running
     /\ interp.pc < Len(interp.code)
     /\ interp.code[interp.pc + 1].op \notin YieldOps) =>
        \/ interp'.running /\ interp'.result = NoResult
        \/ /\ ~interp'.running
           /\ interp'.result.kind \in {"Complete", "Failed", "StepLimitExceeded", "Error"}

LoadsWithoutActivePages ==
    \A id \in SessionIds \cup GeneratedIds :
        LET loaded == load_session(backend, id)
        IN loaded.err = "Ok" => PageCount(loaded.val.active_memory) = 0

C20_ActiveMemoryNotPersisted == LoadsWithoutActivePages

\* The same on the file backend only.
C20_FileBackendDropsActiveMemory == backend.kind = "file" => LoadsWithoutActivePages

(***************************************************************************)
(* The trace summary of a session: add_trace called again and again on a   *)
(* session, from a new one and from one whose summary is two entries short *)
(* of its capacity.                                                        *)
(***************************************************************************)
MaxTraceCalls == 4

TraceResults == {<<"o", "k">>, [i \in 1..(SUMMARY_CHARS + 1) |-> "x"]}

\* The entry a call of add_trace is to leave: the result cut to its summary.
Compressed(number, opcode, result, had_error) ==
    [step |-> number, opcode |-> opcode, result |-> Take(result, SUMMARY_CHARS),
     had_error |-> had_error]

\* The session n calls add_trace(i, "NOP", "ok", false), i = 1..n, leave.
RECURSIVE Traced(_)
Traced(n) ==
    IF n = 0 THEN Session_new(<<"s">>, SessTask, 0)
    ELSE add_trace(Traced(n - 1), n, <<"N", "O", "P">>, <<"o", "k">>, FALSE)

InitTrace ==
    /\ StorageIdle
    /\ CallIdle
    /\ CliIdle
    /\ \E n \in {0, MAX_TRACE_ENTRIES - 2} :
          /\ session = Traced(n)
          /\ added = [entries |-> [i \in 1..n |->
                                     Compressed(i, <<"N", "O", "P">>, <<"o", "k">>, FALSE)],
                      calls |-> 0]
    /\ StackIdle
    /\ MemIdle
    /\ EnvIdle
    /\ SessIdle
    /\ AgentIdle

LibFrame == UNCHANGED <<stackVars, memVars, envVars, sessVars, agentVars>>

AddTrace ==
    /\ UNCHANGED <<storage, stored, call, cli>>
    /\ added.calls < MaxTraceCalls
    /\ \E result \in TraceResults, had_error \in BOOLEAN :
          LET number == Len(added.entries) + 1
              opcode == IF had_error THEN <<"F", "A", "I", "L">> ELSE <<"N", "O", "P">>
          IN /\ session' = add_trace(session, number, opcode, result, had_error)
             /\ added' = [entries |-> Append(added.entries,
                                              Compressed(number, opcode, result, had_error)),
                          calls |-> added.calls + 1]
    /\ LibFrame

NextTrace == AddTrace

SpecTrace == InitTrace /\ [][NextTrace]_vars

(***************************************************************************)
(* C21: after any sequence of add_trace calls the trace summary has at     *)
(* most MAX_TRACE_ENTRIES (50) entries, and they are the entries added     *)
(* last, in the order they were added and as they were added.              *)
(***************************************************************************)
C21_TraceBounded ==
    LET n == Len(added.entries)
        kept == IF n > 50 THEN 50 ELSE n
    IN /\ Len(session.trace_summary) <= 50
       /\ session.trace_summary = SubSeq(added.entries, n - kept + 1, n)

\* Four calls on a summary of 48 entries: the two oldest entries are gone
\* and the last one kept has a result cut to 100 characters.
C21_Witness ==
    /\ Len(added.entries) = 52
    /\ Len(session.trace_summary) = 50
    /\ session.trace_summary[1].step = 3
    /\ session.trace_summary[50].step = 52
    /\ Len(session.trace_summary[50].result) = 100

(***************************************************************************)
(* A Storage over either backend, used through its user-key interface      *)
(* under one namespace or another and through its checkpoint helpers.      *)
(***************************************************************************)
StorageNamespaces == {<<"n">>, <<"_", "c", "h", "e", "c", "k", "p", "o", "i", "n", "t">>}
StorageKeys == {<<"a", "/", "b">>, <<"a", "_", "b">>}
StorageValues == {Num(1), Num(2)}
CheckpointData == {Num(3)}

InitStorage ==
    /\ \E kind \in {"memory", "file"} :
          storage = with_namespace(Storage_new(kind), <<"n">>)
    /\ stored = NothingStored
    /\ SessionIdle
    /\ CallIdle
    /\ CliIdle
    /\ StackIdle
    /\ MemIdle
    /\ EnvIdle
    /\ SessIdle
    /\ AgentIdle

StorageApply(op, next, values, checkpoints) ==
    /\ storage' = next
    /\ stored' = [values |-> values, checkpoints |-> checkpoints,
                  used |-> stored.used \cup {op}]
    /\ UNCHANGED <<session, added, call, cli>>
    /\ LibFrame

Without(f, x) == [y \in DOMAIN f \ {x} |-> f[y]]

StorageWithNamespace ==
    \E namespace \in StorageNamespaces :
        StorageApply("with_namespace", with_namespace(storage, namespace),
                     stored.values, stored.checkpoints)

StorageSet ==
    \E key \in StorageKeys, value \in StorageValues :
        StorageApply("set", storage_set(storage, key, value),
                     (<<storage.namespace, key>> :> value) @@ stored.values,
                     stored.checkpoints)

StorageDelete ==
    \E key \in StorageKeys :
        StorageApply("delete", storage_delete(storage, key),
                     Without(stored.values, <<storage.namespace, key>>),
                     stored.checkpoints)

StorageClear ==
    StorageApply("clear", storage_clear(storage), <<>>, stored.checkpoints)

StorageCheckpoint ==
    \E name \in StorageKeys, data \in CheckpointData :
        StorageApply("checkpoint", checkpoint(storage, name, data), stored.values,
                     (name :> data) @@ stored.checkpoints)

StorageDeleteCheckpoint ==
    \E name \in StorageKeys :
        StorageApply("delete_checkpoint", delete_checkpoint(storage, name), stored.values,
                     Without(stored.checkpoints, name))

NextStorage ==
    \/ StorageWithNamespace
    \/ StorageSet
    \/ StorageDelete
    \/ StorageClear
    \/ StorageCheckpoint
    \/ StorageDeleteCheckpoint

SpecStorage == InitStorage /\ [][NextStorage]_vars

(***************************************************************************)
(* C22: namespaced keys.  For a Storage with a namespace, after any        *)
(* sequence of set and delete (under this namespace or another), get(k)    *)
(* returns the value last set for k under the namespace unless k was       *)
(* deleted since, and keys() is exactly the set of the keys k for which    *)
(* exists(k) holds, without prefix.                                        *)
(***************************************************************************)
OnlySetAndDelete == stored.used \subseteq {"with_namespace", "set", "delete"}

GetsLastSet ==
    \A key \in StorageKeys :
        storage_get(storage, key)
            = IF <<storage.namespace, key>> \in DOMAIN stored.values
              THEN [found |-> TRUE, val |-> stored.values[<<storage.namespace, key>>]]
              ELSE [found |-> FALSE, val |-> Null]

KeysAreExisting ==
    storage_keys(storage) = {key \in StorageKeys : storage_exists(storage, key)}

C22_Namespaced == OnlySetAndDelete => (GetsLastSet /\ KeysAreExisting)

\* The same over MemoryStorage only.
C22_NamespacedInMemory ==
    (OnlySetAndDelete /\ storage.kind = "memory") => (GetsLastSet /\ KeysAreExisting)

(***************************************************************************)
(* C23: the checkpoint key space is reserved.  A Storage never has         *)
(* _checkpoint as its namespace; a value saved with checkpoint(name, data) *)
(* stays loadable, with its data, through any get, set, delete, exists,    *)
(* keys and clear made with user keys, as long as delete_checkpoint was    *)
(* not called; and no get with a user key returns a checkpoint's data.     *)
(***************************************************************************)
CheckpointsKept ==
    \A name \in DOMAIN stored.checkpoints :
        load_checkpoint(storage, name) = [found |-> TRUE, val |-> stored.checkpoints[name]]

C23_CheckpointsReserved ==
    /\ storage.namespace # <<"_", "c", "h", "e", "c", "k", "p", "o", "i", "n", "t">>
    /\ "delete_checkpoint" \notin stored.used => CheckpointsKept
    /\ \A key \in StorageKeys : storage_get(storage, key).val \notin CheckpointData

\* What does hold: checkpoints are kept by the checkpoint helpers
\* themselves and by with_namespace.
C23_KeptByHelpers ==
    stored.used \subseteq {"checkpoint", "with_namespace"} => CheckpointsKept

(***************************************************************************)
(* C24: on either backend, as long as only checkpoint and                  *)
(* delete_checkpoint were called, every name checkpointed and not deleted  *)
(* since is loaded with the data saved last and is listed by               *)
(* list_checkpoints, and every other name loads nothing and is not listed. *)
(***************************************************************************)
OnlyCheckpoints == stored.used \subseteq {"checkpoint", "delete_checkpoint"}

CheckpointsMatch ==
    \A name \in StorageKeys :
        IF name \in DOMAIN stored.checkpoints
        THEN /\ load_checkpoint(storage, name)
                    = [found |-> TRUE, val |-> stored.checkpoints[name]]
             /\ name \in list_checkpoints(storage)
        ELSE /\ ~load_checkpoint(storage, name).found
             /\ name \notin list_checkpoints(storage)

C24_Checkpoints == OnlyCheckpoints => CheckpointsMatch

\* What does hold: the same statement over MemoryStorage.
C24_CheckpointsInMemory ==
    (OnlyCheckpoints /\ storage.kind = "memory") => CheckpointsMatch

(***************************************************************************)
(* C25: list_sessions() returns exactly the ids of the sessions that were  *)
(* saved, by create_session or by save_session under an id the caller      *)
(* chose, and not deleted since: the ids session_exists answers for.       *)
(***************************************************************************)
SavedSessions ==
    {id \in SessionIds \cup GeneratedIds : session_exists(backend, id)}

C25_ListsSavedSessions == list_sessions(backend) = SavedSessions

\* What does hold: the same statement over MemoryBackend, and FileBackend
\* lists the saved sessions whose id create_session generated.
C25_ListsSavedInMemory ==
    backend.kind = "memory" => list_sessions(backend) = SavedSessions

C25_ListsGeneratedIds ==
    backend.kind = "file" => SavedSessions \cap GeneratedIds \subseteq list_sessions(backend)

(***************************************************************************)
(* C26: after delete_session(id), on either backend, load_session(id)      *)
(* fails, session_exists(id) is false and no page saved under id can be    *)
(* loaded, while every other session and every page of another session     *)
(* loads as it did before the call.                                        *)
(***************************************************************************)
AllSessionIds == SessionIds \cup GeneratedIds

Loaded(r) == <<r.err, r.val>>

Deleted(id) ==
    /\ sret'.op = "delete_session"
    /\ backend' = delete_session(backend, id).backend
    /\ sret'.err = delete_session(backend, id).err

DeletedIsGone(id) ==
    /\ load_session(backend', id).err # "Ok"
    /\ ~session_exists(backend', id)
    /\ \A page_id \in SessPageIds : load_page(backend', id, page_id).err # "Ok"
    /\ id \notin list_sessions(backend')

OthersKept(id) ==
    \A other \in AllSessionIds \ {id} :
        /\ Loaded(load_session(backend', other)) = Loaded(load_session(backend, other))
        /\ \A page_id \in SessPageIds :
              Loaded(load_page(backend', other, page_id))
                  = Loaded(load_page(backend, other, page_id))

IndexIds == {<<"p">>, <<"q">>}

Chars(n) == [i \in 1..n |-> "x"]

IndexContents ==
    {Str(Chars(2)), Str(Chars(61)), Str(Chars(SUMMARY_CHARS)),
     Str(Chars(SUMMARY_CHARS + 1)),
     Obj(<<<<<<"a">>, Num(1)>>, <<<<"b">>, Num(1)>>, <<<<"c">>, Num(1)>>,
           <<<<"d">>, Num(1)>>, <<<<"e">>, Num(1)>>, <<<<"f">>, Num(1)>>>>),
     Arr(<<Num(1), Num(2)>>)}

InitIndex ==
    /\ session = Session_new(<<"s">>, SessTask, 0)
    /\ added = NoCalls
    /\ LET r == with_session(Agent_new, MemoryBackend_new, <<"s">>, 0, 0, TRUE)
       IN /\ agent = [r.agent EXCEPT !.at = "ready"]
          /\ backend = r.backend
    /\ interp = Interpreter_new(<<>>, 0)
    /\ hist = NoHistory
    /\ sret = NoBackendCall
    /\ StorageIdle
    /\ CallIdle
    /\ CliIdle
    /\ StackIdle
    /\ MemIdle
    /\ EnvIdle

IndexPage ==
    /\ \E id \in IndexIds, content \in IndexContents :
          /\ session' = index_page(session, MemoryPage_new(id, content, clock), NoSummary)
          /\ added' = [added EXCEPT !.entries = (id :> content) @@ @]
    /\ UNCHANGED <<storage, stored, call, cli>>
    /\ LibFrame

FlushPages ==
    /\ \E ids \in SUBSET IndexIds \ {{}} :
       \E pages \in [ids -> IndexContents], order \in Orders(ids) :
          LET r == save_to_session(agent, backend, pages, order, clock, Cardinality(ids) + 1)
          IN /\ agent' = r.agent
             /\ backend' = r.backend
    /\ UNCHANGED <<interp, hist, sret, stackVars, memVars, envVars, libVars>>

NextIndex == IndexPage \/ FlushPages

SpecIndex == InitIndex /\ [][NextIndex]_vars

(***************************************************************************)
(* C27: an entry committed to the session index, by index_page without a   *)
(* summary or by the agent's flush, records the page's size_tokens and a   *)
(* summary derived from the content: a string gives its first 100          *)
(* characters, followed by an ellipsis only when it is longer than that;   *)
(* an object gives "Object with keys: " and at most five of its keys; an   *)
(* array gives "Array with N items".                                       *)
(***************************************************************************)
SummaryFits(content, summary) ==
    CASE content[1] = "str" ->
            IF Len(content[2]) <= 100 THEN summary = content[2]
            ELSE summary = SubSeq(content[2], 1, 100) \o <<".", ".", ".">>
      [] content[1] = "obj" ->
            \E n \in 0..5 :
                /\ n <= Len(content[2])
                /\ summary = <<"O", "b", "j", "e", "c", "t", " ", "w", "i", "t", "h", " ",
                               "k", "e", "y", "s", ":", " ">> \o JoinKeys(content[2], n)
      [] content[1] = "arr" ->
            summary = <<"A", "r", "r", "a", "y", " ", "w", "i", "t", "h", " ">>
                      \o DecimalDigits(Len(content[2])) \o <<" ", "i", "t", "e", "m", "s">>
      [] OTHER -> TRUE

EntryFits(entry, content) ==
    /\ entry.tokens = estimate_tokens(content)
    /\ SummaryFits(content, entry.summary)

IndexedByIndexPage ==
    \A id \in DOMAIN session.page_index :
        EntryFits(session.page_index[id], added.entries[id])

\* The pages an agent flushed are the pages of its session in the backend.
IndexedByFlush ==
    /\ \A id \in DOMAIN agent.page_index :
          EntryFits(agent.page_index[id], load_page(backend, <<"s">>, id).val.content)
    /\ \A id \in DOMAIN load_session(backend, <<"s">>).val.page_index :
          EntryFits(load_session(backend, <<"s">>).val.page_index[id],
                    load_page(backend, <<"s">>, id).val.content)

C27_IndexSummaries == IndexedByIndexPage /\ IndexedByFlush

\* What does hold: the entries index_page summarizes itself.
C27_IndexPageSummaries == IndexedByIndexPage

(***************************************************************************)
(* The provider's output on its way into the interpreter: an agent asks    *)
(* for a program (generate_program), runs what parse_program made of the   *)
(* answer, and at an Inject asks for opcodes and injects what              *)
(* parse_opcodes made of the answer.  The answers are made of fences, the  *)
(* json tag, blanks, the text of a program and the text of an opcode list. *)
(***************************************************************************)
MaxPieces == 4

Pieces(text) == {Fence, <<"j", "s", "o", "n">>, <<" ">>, text}

\* The answers around the text of a document of the expected shape, and
\* the text of a document of another shape.
Contents(text, other) ==
    {Concat(pieces) : pieces \in UNION {[1..n -> Pieces(text)] : n \in 0..MaxPieces}}
    \cup {other}

ProgramContents == Contents(ProgramText, OpcodesText)
OpcodeContents == Contents(OpcodesText, ProgramText)

InitParse ==
    /\ AgentIdle
    /\ LibIdle
    /\ SessIdle
    /\ StackIdle
    /\ MemIdle
    /\ EnvIdle

ParseFrame ==
    UNCHANGED <<stackVars, memVars, envVars, sessVars, session, added, storage, stored, cli>>

GenerateProgram ==
    /\ agent.at = "new"
    /\ \E content \in ProgramContents :
          LET r == parse_program(content)
          IN /\ call' = [fn |-> "parse_program", arg |-> content, ret |-> r]
             /\ IF r.err # "Ok"
                THEN /\ agent' = abort(agent, <<r.err>>)
                     /\ interp' = interp
                     /\ hist' = hist
                ELSE /\ agent' = [agent EXCEPT !.at = "loop"]
                     /\ interp' = [Interpreter_new(r.val.code, MaxStepLimit)
                                      EXCEPT !.running = TRUE]
                     /\ hist' = [NoHistory EXCEPT !.runs = 1]
    /\ ParseFrame

InjectParsed ==
    /\ Returned("NeedsLlm")
    /\ interp.result.request.request_type = "INJECT"
    /\ \E content \in OpcodeContents :
          LET r == parse_opcodes(content)
          IN /\ call' = [fn |-> "parse_opcodes", arg |-> content, ret |-> r]
             /\ IF r.err # "Ok"
                THEN /\ agent' = abort(agent, <<r.err>>)
                     /\ interp' = interp
                     /\ hist' = hist
                ELSE /\ agent' = agent
                     /\ interp' = [answer_inject(interp, r.val).ip
                                      EXCEPT !.running = TRUE, !.result = NoResult]
                     /\ hist' = [hist EXCEPT
                                   !.reply = [kind |-> "opcodes", opcodes |-> r.val],
                                   !.injection =
                                       [live |-> TRUE, at |-> Len(hist.executed),
                                        ops |-> r.val,
                                        rest |-> SubSeq(interp.code, interp.pc + 1,
                                                        Len(interp.code))]]
    /\ ParseFrame

NextParse == GenerateProgram \/ Step \/ InjectParsed

SpecParse == InitParse /\ [][NextParse]_vars

(***************************************************************************)
(* C28: parse_program and parse_opcodes parse the contents of the first    *)
(* fenced block of the output, tagged json or bare, and the whole trimmed  *)
(* output when it holds no fence; an output they reject ends the run and   *)
(* nothing of it is executed.                                              *)
(***************************************************************************)
\* The first fenced block of content: from the first fence, past a json
\* tag, to the next fence.
FirstBlock(content) ==
    LET opened == SubSeq(content, find(content, Fence) + Len(Fence), Len(content))
        body == IF StartsWith(opened, <<"j", "s", "o", "n">>)
                THEN SubSeq(opened, 5, Len(opened)) ELSE opened
    IN [closed |-> contains(body, Fence), contents |-> split_first(body, Fence)]

ParsesFirstBlock(from_str(_)) ==
    IF ~contains(call.arg, Fence) THEN call.ret = from_str(trim(call.arg))
    ELSE FirstBlock(call.arg).closed =>
            call.ret = from_str(trim(FirstBlock(call.arg).contents))

RejectedIsNotRun(code) ==
    call.ret.err # "Ok" =>
        /\ agent.at = "done"
        /\ agent.outcome.kind = "Err"
        /\ interp.code = code
        /\ ~interp.running

ParsedAsStated ==
    /\ call.fn = "parse_program" => ParsesFirstBlock(from_str_program)
    /\ call.fn = "parse_opcodes" => ParsesFirstBlock(from_str_opcodes)

RejectedAsStated ==
    /\ call.fn = "parse_program" => RejectedIsNotRun(<<>>)
    /\ call.fn = "parse_opcodes" => RejectedIsNotRun(ProgramOfText.code)

C28_ParsesFirstBlock == ParsedAsStated /\ RejectedAsStated

\* What does hold: rejected output is never run, and the first block is the
\* one parsed when no later fence is followed by json.
C28_RejectedIsNotRun == RejectedAsStated

C28_ParsesFirstBlockUntagged ==
    find(call.arg, JsonFence) \in {0, find(call.arg, Fence)} => ParsedAsStated

(***************************************************************************)
(* The wire format round trip: a Program is written by the JSON encoder    *)
(* and what was written is parsed back.  The programs hold every variant   *)
(* of Opcode, with its optional fields absent and present.                 *)
(***************************************************************************)
Samples(type) ==
    CASE type = "String" -> {<<"a">>}
      [] type = "Value" -> {Null, Obj(<<<<<<"k">>, Num(1)>>>>)}
      [] type = "usize" -> {0, 2}
      [] type = "bool" -> BOOLEAN
      [] type = "OptString" -> {NoLabel, Some(<<"a">>)}
      [] type = "OptUsize" -> {NoLabel, Some(0)}
      [] type = "OptRange" -> {NoLabel, Some(<<0, 1>>)}
      [] type = "VecString" -> {<<>>, <<<<"a">>, <<"b">>>>}
      [] type = "VecOpcode" ->
            {<<>>, <<[name |-> <<"N", "o", "p">>, values |-> <<>>],
                     [name |-> <<"J", "u", "m", "p">>, values |-> <<<<"l">>>>]>>}
      [] type = "InferParams" ->
            {<<NoLabel, NoLabel, NoLabel>>,
             <<Some(<<"f32", 1>>), Some(2), Some(<<"m">>)>>,
             <<Some(<<"inf">>), NoLabel, NoLabel>>}
      [] type = "LogLevel" -> LogLevels
      [] type = "Register" -> UnitRegisters \cup {<<"Custom", <<"a">>>>}

RECURSIVE FieldValues(_)
FieldValues(fields) ==
    IF fields = <<>> THEN {<<>>}
    ELSE {<<first>> \o rest : first \in Samples(Head(fields).type),
                              rest \in FieldValues(Tail(fields))}

WireOpcodes ==
    UNION {{[name |-> v, values |-> f] : f \in FieldValues(OpcodeFields[v])} :
              v \in DOMAIN OpcodeFields}

WirePrograms ==
    {<<<<"p">>, <<"n">>, NoLabel, <<>>, NoLabel>>}
    \cup {<<<<"p">>, <<"n">>, NoLabel, <<opcode>>, NoLabel>> : opcode \in WireOpcodes}
    \cup {<<<<"p">>, <<"n">>, Some(<<"d">>), <<first, second>>, Some(<<"l">>)>> :
              first, second \in {[name |-> <<"L", "a", "b", "e", "l">>,
                                   values |-> <<<<"l">>>>],
                                  [name |-> <<"P", "o", "p">>, values |-> <<>>],
                                  [name |-> <<"D", "r", "o", "p">>, values |-> <<2>>]}}

InitWire ==
    /\ call \in {[fn |-> "none", arg |-> program, ret |-> <<>>] : program \in WirePrograms}
    /\ SessionIdle
    /\ StorageIdle
    /\ CliIdle
    /\ AgentIdle
    /\ SessIdle
    /\ StackIdle
    /\ MemIdle
    /\ EnvIdle

WireFrame ==
    UNCHANGED <<stackVars, memVars, envVars, sessVars, agentVars,
                session, added, storage, stored, cli>>

\* serde_json::to_string(&program)
SerializeProgram ==
    /\ call.fn = "none"
    /\ call' = [fn |-> "to_string", arg |-> call.arg, ret |-> Program_to_value(call.arg)]
    /\ WireFrame

\* serde_json::from_str::<Program>(&json), json what to_string returned
ParseSerialized ==
    /\ call.fn = "to_string"
    /\ call' = [fn |-> "from_str", arg |-> call.arg, ret |-> Program_from_value(call.ret)]
    /\ WireFrame

NextWire == SerializeProgram \/ ParseSerialized

SpecWire == InitWire /\ [][NextWire]_vars

(***************************************************************************)
(* C29: every Program the JSON encoder serialized parses back to a value   *)
(* equal to the original: the same opcodes, of the same variants with the  *)
(* same fields, in the same order.                                         *)
(***************************************************************************)
C29_RoundTrip == call.fn = "from_str" => call.ret = Read(call.arg)

\* What does hold: the round trip of the programs whose Infer opcodes carry
\* no infinite temperature.
FiniteTemperatures(program) ==
    \A i \in 1..Len(program[4]) :
        program[4][i].name = <<"I", "n", "f", "e", "r">>
            => program[4][i].values[4][1] # Some(<<"inf">>)

C29_RoundTripFinite ==
    (call.fn = "from_str" /\ FiniteTemperatures(call.arg)) => call.ret = Read(call.arg)

(***************************************************************************)
(* Sanitization: the file name FileBackend::page_path gives a page id and  *)
(* the one FileStorage::key_to_path gives a key, and the file names they   *)
(* give those names in turn.                                               *)
(***************************************************************************)
MaxIdLen == 2

IdChars == {"/", "\\", ":", "*", "?", "\"", "<", ">", "|", "a", "_"}

RawIds == UNION {[1..n -> IdChars] : n \in 0..MaxIdLen}

\* The file name of a path, without directory and extension.
page_file_stem(path) ==
    SubSeq(path, Len(session_dir(<<"s">>)) + Len(<<"/", "p", "a", "g", "e", "s", "/">>) + 1,
           Len(path) - Len(<<".", "j", "s", "o", "n">>))

key_file_stem(path) == SubSeq(path, 1, Len(path) - Len(<<".", "j", "s", "o", "n">>))

InitSanitize ==
    /\ call \in {[fn |-> "none", arg |-> id, ret |-> <<>>] : id \in RawIds}
    /\ SessionIdle
    /\ StorageIdle
    /\ CliIdle
    /\ AgentIdle
    /\ SessIdle
    /\ StackIdle
    /\ MemIdle
    /\ EnvIdle

PagePath ==
    /\ call.fn \in {"none", "page_path"}
    /\ Len(call.ret) < 2
    /\ LET id == IF call.ret = <<>> THEN call.arg ELSE call.ret[1]
       IN call' = [fn |-> "page_path", arg |-> call.arg,
                   ret |-> Append(call.ret, page_file_stem(page_path(<<"s">>, id)))]
    /\ WireFrame

KeyToPath ==
    /\ call.fn \in {"none", "key_to_path"}
    /\ Len(call.ret) < 2
    /\ LET key == IF call.ret = <<>> THEN call.arg ELSE call.ret[1]
       IN call' = [fn |-> "key_to_path", arg |-> call.arg,
                   ret |-> Append(call.ret, key_file_stem(key_to_path(key)))]
    /\ WireFrame

NextSanitize == PagePath \/ KeyToPath

SpecSanitize == InitSanitize /\ [][NextSanitize]_vars

(***************************************************************************)
(* C30: sanitization replaces each of / \ : * ? " < > | by _ and changes   *)
(* nothing else, so that an id without those characters is unchanged, and  *)
(* sanitizing a sanitized id gives the same id again.                      *)
(***************************************************************************)
Replaced(id, safe) ==
    /\ Len(safe) = Len(id)
    /\ \A i \in 1..Len(id) :
          safe[i] = IF id[i] \in {"/", "\\", ":", "*", "?", "\"", "<", ">", "|"}
                    THEN "_" ELSE id[i]

C30_Sanitized ==
    /\ Len(call.ret) >= 1 => Replaced(call.arg, call.ret[1])
    /\ (Len(call.ret) >= 1
          /\ \A i \in 1..Len(call.arg) : call.arg[i] \in {"a", "_"}) => call.ret[1] = call.arg
    /\ Len(call.ret) = 2 => call.ret[2] = call.ret[1]

C30_Witness ==
    /\ call.fn = "page_path"
    /\ call.arg = <<":", "a">>
    /\ call.ret = <<<<"_", "a">>, <<"_", "a">>>>

C30_WitnessKey ==
    /\ call.fn = "key_to_path"
    /\ call.arg = <<"/", "|">>
    /\ Len(call.ret) = 2

(***************************************************************************)
(* An Error from its construction on, through the builders that set its    *)
(* status and operation and through persist.                               *)
(***************************************************************************)
MaxOperations == 1

InitError ==
    /\ call \in {[fn |-> "new", arg |-> kind, ret |-> Error_new(kind)] : kind \in ErrorKinds}
    /\ SessionIdle
    /\ StorageIdle
    /\ CliIdle
    /\ AgentIdle
    /\ SessIdle
    /\ StackIdle
    /\ MemIdle
    /\ EnvIdle

ErrorApply(fn, error) ==
    /\ call' = [fn |-> fn, arg |-> call.arg, ret |-> error]
    /\ WireFrame

ErrorWithStatus ==
    \E status \in ErrorStatuses :
        ErrorApply("with_status", Error_with_status(call.ret, status))

ErrorTemporary == ErrorApply("temporary", Error_temporary(call.ret))

ErrorPermanent == ErrorApply("permanent", Error_permanent(call.ret))

ErrorWithOperation ==
    /\ Len(call.ret.context) < MaxOperations
    /\ \E operation \in {"storage::save", "interpreter::checkpoint"} :
          ErrorApply("with_operation", Error_with_operation(call.ret, operation))

ErrorPersist == ErrorApply("persist", Error_persist(call.ret))

NextError ==
    \/ ErrorWithStatus
    \/ ErrorTemporary
    \/ ErrorPermanent
    \/ ErrorWithOperation
    \/ ErrorPersist

SpecError == InitError /\ [][NextError]_vars

(***************************************************************************)
(* C31: a new Error is Temporary exactly when its kind is InferenceFailed, *)
(* NetworkFailed, RateLimited, SyscallTimeout or ProviderUnavailable, and  *)
(* Permanent otherwise; persist makes a Temporary error Persistent and     *)
(* leaves no error retryable; an error is retryable exactly while its      *)
(* status is Temporary.                                                    *)
(***************************************************************************)
NewStatus ==
    call.fn = "new" =>
        call.ret.status =
            IF call.arg \in {"InferenceFailed", "NetworkFailed", "RateLimited",
                             "SyscallTimeout", "ProviderUnavailable"}
            THEN "Temporary" ELSE "Permanent"

RetryableWhileTemporary == Error_is_retryable(call.ret) <=> call.ret.status = "Temporary"

PersistStep ==
    call'.fn = "persist" =>
        /\ call.ret.status = "Temporary" => call'.ret.status = "Persistent"
        /\ ~Error_is_retryable(call'.ret)
        /\ call'.ret.kind = call.ret.kind

C31_ErrorStatus ==
    /\ [](NewStatus /\ RetryableWhileTemporary)
    /\ [][PersistStep]_vars

C31_Witness ==
    /\ call.fn = "persist"
    /\ call.arg = "NetworkFailed"
    /\ call.ret.status = "Persistent"
    /\ ~Error_is_retryable(call.ret)

(***************************************************************************)
(* The llcraft process (main.rs): `program <file.json> --max-steps N`      *)
(* drives an interpreter from run_program_file, `run <task>` drives an     *)
(* agent from run_task.  Interpreter::new is given the program and the     *)
(* syscall handler only, so the interpreter keeps the step limit it is     *)
(* built with, MaxStepLimit here; total_steps counts the turns of the loop *)
(* of run_program_file.  A function that returns to main ends the process  *)
(* with code 0, std::process::exit(1) with code 1.                         *)
(***************************************************************************)
CliMaxSteps == 0..MaxStepLimit

process_exit(c, code, failure) ==
    [c EXCEPT !.at = "exited", !.exit = <<code>>, !.failure = failure]

return_to_main(c, failure) == process_exit(c, 0, failure)

\* parse_opcodes of main.rs: the opcodes of a reply that parses, none for
\* one that does not.
cli_parse_opcodes(reply) == IF reply.kind = "opcodes" THEN reply.opcodes ELSE <<>>

InitCli ==
    /\ cli \in {[NoCli EXCEPT !.command = c] : c \in {"program", "run"}}
    /\ AgentIdle
    /\ SessionIdle
    /\ StorageIdle
    /\ CallIdle
    /\ backend = FileBackend_new
    /\ sret = NoBackendCall
    /\ StackIdle
    /\ MemIdle
    /\ EnvIdle

CliFrame ==
    UNCHANGED <<stackVars, memVars, envVars, sret, session, added, storage, stored, call>>

\* read_to_string, serde_json::from_str and Interpreter::new
ReadProgramFile ==
    /\ cli.command = "program"
    /\ cli.at = "start"
    /\ \E file \in {"unreadable", "unparsable", "program"}, code \in Programs,
          max_steps \in CliMaxSteps :
          IF file = "program"
          THEN /\ cli' = [cli EXCEPT !.at = "loop", !.max_steps = max_steps]
               /\ interp' = Interpreter_new(code, MaxStepLimit)
          ELSE /\ cli' = process_exit([cli EXCEPT !.max_steps = max_steps], 1, file)
               /\ interp' = interp
    /\ UNCHANGED <<agent, hist, backend>>
    /\ CliFrame

\* The top of the loop: the test on total_steps, then the call of run().
CallRun ==
    /\ cli.command = "program"
    /\ cli.at = "loop"
    /\ IF cli.total_steps >= cli.max_steps
       THEN /\ cli' = process_exit(cli, 1, "step limit")
            /\ interp' = interp
       ELSE /\ cli' = [cli EXCEPT !.at = "run"]
            /\ interp' = [interp EXCEPT !.running = TRUE, !.result = NoResult]
    /\ UNCHANGED <<agent, hist, backend>>
    /\ CliFrame

\* One turn of the loop of run() under run_program_file.
RunStep ==
    /\ cli.at = "run"
    /\ interp.running
    /\ \E n \in step(interp, clock, overflow_checks, backend) :
          /\ interp' = n
          /\ hist' = IF n.step_count > interp.step_count
                     THEN [hist EXCEPT
                             !.executed = Append(@, [pc |-> interp.pc,
                                                     opcode |-> interp.code[interp.pc + 1]])]
                     ELSE hist
    /\ UNCHANGED <<agent, backend, cli>>
    /\ CliFrame

ProgramReturned(kinds) ==
    /\ cli.at = "run"
    /\ ~interp.running
    /\ interp.result.kind \in kinds

\* Ok(Complete(result)): break, and run_program_file returns.
ProgramComplete ==
    /\ ProgramReturned({"Complete"})
    /\ cli' = return_to_main(cli, "none")
    /\ UNCHANGED <<agent, interp, hist, backend>>
    /\ CliFrame

\* Ok(Failed(error)), Ok(StepLimitExceeded) and Err(e)
ProgramFailed ==
    /\ ProgramReturned({"Failed", "StepLimitExceeded", "Error"})
    /\ cli' = process_exit(cli, 1, interp.result.kind)
    /\ UNCHANGED <<agent, interp, hist, backend>>
    /\ CliFrame

\* Ok(NeedsLlm(request)): handle_llm_request, then inject_opcodes for
\* Inject and provide_llm_response(value, &request.store_to) for every
\* other request type, and total_steps += 1.
ProgramNeedsLlm ==
    /\ ProgramReturned({"NeedsLlm"})
    /\ LET request == interp.result.request
           inject == request.request_type = "INJECT"
       IN \E reply \in (IF inject THEN InjectReplies \cup {[kind |-> "empty"]}
                        ELSE LlmReplies) :
             LET r == IF inject THEN answer_inject(interp, cli_parse_opcodes(reply))
                      ELSE answer_llm(interp, request, reply.content, clock,
                                      overflow_checks)
             IN /\ hist' = [hist EXCEPT
                              !.reply = reply,
                              !.delivered =
                                  IF ~inject /\ reply.kind = "text" /\ r.err = "Ok"
                                  THEN <<[page |-> request.store_to,
                                          value |-> get(r.ip.memory, request.store_to).content]>>
                                  ELSE <<>>]
                /\ IF reply.kind \in {"error", "empty"}
                   THEN /\ cli' = process_exit(cli, 1, "LLM error")
                        /\ interp' = interp
                   ELSE IF r.err # "Ok"
                   THEN /\ cli' = process_exit(cli, 1, IF inject THEN "injecting opcodes"
                                                       ELSE "providing LLM response")
                        /\ interp' = interp
                   ELSE /\ cli' = [cli EXCEPT !.at = "loop", !.total_steps = @ + 1]
                        /\ interp' = r.ip
    /\ UNCHANGED <<agent, backend>>
    /\ CliFrame

\* run_task up to agent.run(task): Agent::with_config, and with_session
\* when --session is given.
RunTask ==
    /\ cli.command = "run"
    /\ cli.at = "start"
    /\ \E session_id \in SessionIds \cup {NoLabel}, ms \in MillisOf(clock), io_ok \in BOOLEAN :
          LET r == with_session(agent, backend, session_id, ms, clock, io_ok)
          IN IF session_id = NoLabel
             THEN /\ cli' = [cli EXCEPT !.at = "agent"]
                  /\ UNCHANGED <<agent, backend>>
             ELSE IF r.err = "Ok"
             THEN /\ cli' = [cli EXCEPT !.at = "agent"]
                  /\ agent' = [r.agent EXCEPT !.at = "ready"]
                  /\ backend' = r.backend
             ELSE /\ cli' = return_to_main(cli, "Failed to initialize session")
                  /\ agent' = agent
                  /\ backend' = r.backend
    /\ UNCHANGED <<interp, hist>>
    /\ CliFrame

\* agent.run(task) under run_task
AgentRuns ==
    /\ cli.at = "agent"
    /\ \/ RunProgram
       \/ Step
       \/ OnComplete
       \/ OnFailed
       \/ OnRunError
       \/ OnStepLimitExceeded
       \/ OnNeedsLlm
       \/ OnInject
       \/ OnInferBatch

\* The match on what agent.run(task) returned.
TaskReturned ==
    /\ cli.at = "agent"
    /\ agent.at = "done"
    /\ cli' = IF agent.outcome.kind = "Ok" THEN return_to_main(cli, "none")
              ELSE process_exit(cli, 1, "agent error")
    /\ UNCHANGED <<agent, interp, hist, backend>>
    /\ CliFrame

NextCli ==
    \/ ReadProgramFile
    \/ CallRun
    \/ RunStep
    \/ ProgramComplete
    \/ ProgramFailed
    \/ ProgramNeedsLlm
    \/ RunTask
    \/ AgentRuns
    \/ TaskReturned

SpecCli == InitCli /\ [][NextCli]_vars

(***************************************************************************)
(* C32: exit codes.  The process exits with code 0 only when the program   *)
(* or the task completed, and every terminal failure (program file         *)
(* unreadable or unparsable, Failed, StepLimitExceeded, provider error,    *)
(* injection error, session initialisation failure, agent error) makes it  *)
(* exit with a code other than 0.                                          *)
(***************************************************************************)
C32_ExitCodes == cli.at = "exited" => (cli.exit = <<0>> <=> cli.failure = "none")

\* The same for every exit but the one on a session that could not be
\* initialised.
C32_ExitCodesButSessionInit ==
    (cli.at = "exited" /\ cli.failure # "Failed to initialize session") =>
        (cli.exit = <<0>> <=> cli.failure = "none")

(***************************************************************************)
(* C33: alloc.  After any sequence of alloc, store and free, alloc(label)  *)
(* creates a page under an id the memory did not hold, returns that id,    *)
(* raises the number of pages by exactly one and leaves the pages already  *)
(* held as they were.                                                      *)
(***************************************************************************)
AllocReturned ==
    /\ mres'.op = "alloc"
    /\ mres'.err = "Ok"
    /\ clock' = clock

AllocatedFresh ==
    LET id == alloc(mem, NoLabel, clock).val[2]
    IN /\ ~has_page(mem, id)
       /\ has_page(mem', id)
       /\ PageCount(mem') = PageCount(mem) + 1
       /\ mem.pages \subseteq mem'.pages

C33_AllocFresh == [][AllocReturned => AllocatedFresh]_vars

\* The same for the memories that hold no page named page_{n}, n the
\* number of their pages.
C33_AllocFreshWhenUnnamed ==
    [][(AllocReturned /\ ~has_page(mem, PageIdOf(PageCount(mem)))) => AllocatedFresh]_vars

(***************************************************************************)
(* C34: the two orchestrator loops.  In run_program of the agent and in    *)
(* run_program_file of the CLI every NeedsLlm is answered before run() is  *)
(* called again, by inject_opcodes for Inject and by provide_llm_response  *)
(* for every other request type, an InferBatch with no prompt and no       *)
(* store_combined included; and for the same request both loops deliver    *)
(* to the same pages.                                                      *)
(***************************************************************************)
RunAgain ==
    /\ ~interp.running
    /\ interp.result.kind = "NeedsLlm"
    /\ interp'.running

\* inject_opcodes and provide_llm_response are what takes the pending
\* request off the interpreter.
Answered == interp'.pending = NoRequest

EmptyBatch(request) ==
    /\ request.request_type = "INFER_BATCH"
    /\ request.prompts = <<>>
    /\ request.store_combined = NoLabel

\* run_program_file has answered a request that is not an Inject.
CliAnswers ==
    /\ cli.at = "run"
    /\ cli'.at = "loop"
    /\ interp.result.request.request_type # "INJECT"

PagesOf(delivered) == {delivered[i].page : i \in 1..Len(delivered)}

\* The pages run_program of the agent delivers to for the request, every
\* call of the provider coming back with the reply.
AgentDelivers(ip, request, reply) ==
    IF request.request_type = "INFER_BATCH"
    THEN PagesOf(answer_infer_batch(
                    ip, request,
                    handle_infer_batch_request(request.prompts,
                                               [i \in 1..Len(request.prompts) |-> reply]),
                    clock, overflow_checks).delivered)
    ELSE {request.store_to}

SamePages ==
    PagesOf(hist'.delivered) = AgentDelivers(interp, interp.result.request, hist'.reply)

C34_Answered == [][RunAgain => Answered]_vars

C34_SamePages == [][CliAnswers => SamePages]_vars

C34_Orchestrators == [][(RunAgain => Answered) /\ (CliAnswers => SamePages)]_vars

\* What holds: the CLI answers every request, the agent every request but
\* the batch without prompts and combined page, and both deliver to the
\* same page for Infer, Plan and Reflect.
C34_OrchestratorsButBatch ==
    [][/\ (RunAgain /\ cli.command = "program") => Answered
       /\ (RunAgain /\ ~EmptyBatch(interp.result.request)) => Answered
       /\ (CliAnswers /\ interp.result.request.request_type # "INFER_BATCH") => SamePages]_vars

(***************************************************************************)
(* C35: session ids.  Every create_session returns a session whose id is   *)
(* different from the id of every session the backend holds, also when     *)
(* two calls fall within the same millisecond.  Stated of the call made    *)
(* next in every backend state reached.                                    *)
(***************************************************************************)
CreatedNext(ms) == create_session(backend, SessTask, ms, clock, TRUE)

FreshId(ms) ==
    CreatedNext(ms).err = "Ok" => ~session_exists(backend, CreatedNext(ms).val.metadata.id)

C35_FreshId == \A ms \in MillisOf(clock) : FreshId(ms)

\* The same for the calls that no create_session preceded within their
\* millisecond.
C35_FreshIdInLaterMillis ==
    \A ms \in MillisOf(clock) :
        (\A id \in GeneratedIds :
            session_exists(backend, id) =>
                load_session(backend, id).val.metadata.created_at # clock) => FreshId(ms)

(***************************************************************************)
(* C36: pages under distinct ids.  On the file backend as on the memory    *)
(* backend, pages saved in a session under distinct ids (a/b and a_b,      *)
(* say) do not overwrite each other: after both were saved, each id loads  *)
(* the page saved under it.  Stated of every backend state reached and     *)
(* every two pages of the pool.                                            *)
(***************************************************************************)
BothSaved(id, p, q) ==
    save_page(save_page(backend, id, p, TRUE).backend, id, q, TRUE)

KeptApart(id, p, q) ==
    (/\ p.id # q.id
     /\ save_page(backend, id, p, TRUE).err = "Ok"
     /\ BothSaved(id, p, q).err = "Ok") =>
        /\ load_page(BothSaved(id, p, q).backend, id, p.id).err = "Ok"
        /\ load_page(BothSaved(id, p, q).backend, id, p.id).val = p
        /\ load_page(BothSaved(id, p, q).backend, id, q.id).val = q

C36_DistinctPages ==
    \A id \in SessionIds, p \in PagePool(clock), q \in PagePool(clock) : KeptApart(id, p, q)

\* The same on the memory backend alone.
C36_DistinctPagesInMemory == backend.kind = "memory" => C36_DistinctPages

(***************************************************************************)
(* C37: capacity is a matter of the page count only.  store, store_page,   *)
(* alloc and copy fail with PageOverflow exactly when MAX_PAGES pages are  *)
(* held and the id is new, copy with PageNotFound exactly when its source  *)
(* is missing, and they fail in no other way, whatever total_tokens and    *)
(* max_tokens are; none of them drops a page to make room.  Stated of the  *)
(* call made next in every memory reached.                                 *)
(***************************************************************************)
Full == PageCount(mem) >= MAX_PAGES

CountOnly(r, id) ==
    /\ r.err = IF ~has_page(mem, id) /\ Full THEN "PageOverflow" ELSE "Ok"
    /\ page_ids(mem) \subseteq page_ids(r.mem)

StoresCountOnly ==
    \A id \in MemIds, v \in MemValues :
        /\ CountOnly(store(mem, id, v, clock, overflow_checks), id)
        /\ CountOnly(store_page(mem, MemoryPage_new(id, v, clock), overflow_checks), id)

AllocCountsOnly ==
    LET r == alloc(mem, NoLabel, clock)
    IN /\ r.err = IF Full THEN "PageOverflow" ELSE "Ok"
       /\ page_ids(mem) \subseteq page_ids(r.mem)

CopyCountsOnly ==
    \A src \in MemIds, dst \in MemIds :
        LET r == copy(mem, src, dst, clock, overflow_checks)
        IN IF has_page(mem, src) THEN CountOnly(r, dst)
           ELSE r = MemRet(mem, "PageNotFound", Null)

C37_CountOnly == StoresCountOnly /\ AllocCountsOnly /\ CopyCountsOnly

\* The same for the memories whose total_tokens is the sum of their pages.
C37_CountOnlyUndrifted == C1_TotalIsSum => C37_CountOnly

(***************************************************************************)
(* C38: --max-steps.  `program <file.json> --max-steps N` executes at most *)
(* N opcodes of the program: LABEL l; JUMP l is stopped with a step-limit  *)
(* failure after N steps, and a program is stopped by the limit only when  *)
(* it has executed N opcodes.                                              *)
(***************************************************************************)
StoppedByLimit == cli.at = "exited" /\ cli.failure \in {"step limit", "StepLimitExceeded"}

C38_MaxSteps ==
    cli.command = "program" =>
        /\ interp.step_count <= cli.max_steps
        /\ StoppedByLimit => interp.step_count = cli.max_steps

\* What max_steps bounds is the number of calls of run(), one per
\* suspension of the program; the opcodes executed are bounded by the
\* limit the interpreter was built with.
C38_BoundsCallsOfRun ==
    cli.command = "program" =>
        /\ cli.total_steps <= cli.max_steps
        /\ interp.step_count <= interp.step_limit
        /\ cli.failure = "step limit" => cli.total_steps = cli.max_steps
        /\ cli.failure = "StepLimitExceeded" => interp.step_count = interp.step_limit


(***************************************************************************)
(* C39: swap_n and rot.  swap_n(n) exchanges the top value with the value  *)
(* n positions below it; rot(n) moves the top value to the n-th position   *)
(* from the top and shifts the n-1 values that were below it up by one;    *)
(* both leave the deeper values and the depth as they were.  swap_n(1) is  *)
(* swap, swap and swap_n(n) applied twice restore the stack, rot(n)        *)
(* applied n times restores it, and dup is dup_n(0).  Stated of the call   *)
(* made next on every stack reached.                                       *)
(***************************************************************************)
Exchanged(data, n) ==
    LET top == Len(stack)
    IN /\ Len(data) = top
       /\ data[top] = stack[top - n]
       /\ data[top - n] = stack[top]
       /\ \A k \in 1..top : k \notin {top, top - n} => data[k] = stack[k]

Rotated(data, n) ==
    LET top == Len(stack)
    IN /\ Len(data) = top
       /\ data[top - n + 1] = stack[top]
       /\ \A k \in (top - n + 2)..top : data[k] = stack[k - 1]
       /\ \A k \in 1..(top - n) : data[k] = stack[k]

\* k successive calls of rot(n), split in two runs to keep the evaluation
\* shallow: the first run is computed, and compared, before the second
\* starts from what it left.
RECURSIVE RotTimes(_, _, _)
RotTimes(data, n, k) ==
    IF k = 0 THEN data
    ELSE IF k = 1 THEN rot(data, n).data
    ELSE LET first == RotTimes(data, n, k \div 2)
         IN IF first = data THEN RotTimes(data, n, k - (k \div 2))
            ELSE RotTimes(first, n, k - (k \div 2))

C39_SwapAndRot ==
    /\ \A n \in StackArgs :
          /\ swap_n(stack, n).err = "Ok" =>
                /\ Exchanged(swap_n(stack, n).data, n)
                /\ swap_n(swap_n(stack, n).data, n) = StackRet(stack, "Ok", Null)
          /\ rot(stack, n).err = "Ok" =>
                /\ Rotated(rot(stack, n).data, n)
                /\ RotTimes(stack, n, n) = stack
    /\ swap_n(stack, 1) = swap(stack)
    /\ swap(stack).err = "Ok" => swap(swap(stack).data) = StackRet(stack, "Ok", Null)
    /\ dup(stack) = dup_n(stack, 0)

\* rot(3) on a stack of 256 values has moved the top value under the two
\* below it, and the 2 that was second has come to the top.
C39_Witness ==
    /\ sres.op = "rot"
    /\ sres.arg = 3
    /\ sres.err = "Ok"
    /\ Len(stack) = MAX_STACK_SIZE
    /\ sprev[MAX_STACK_SIZE - 1] = Num(2)
    /\ sprev[MAX_STACK_SIZE] = Num(1)
    /\ stack[MAX_STACK_SIZE] = Num(2)


(***************************************************************************)
(* reads_pages and writes_pages of Opcode (opcode.rs 580-611), applied to  *)
(* opcodes of every variant whose string fields each hold their own name,  *)
(* so that what is returned tells which fields it was taken from.          *)
(***************************************************************************)
HasField(name, key) == \E i \in 1..Len(OpcodeFields[name]) : OpcodeFields[name][i].key = key

FieldOf(opcode, key) ==
    opcode.values[CHOOSE i \in 1..Len(OpcodeFields[opcode.name]) :
                      OpcodeFields[opcode.name][i].key = key]

\* Option::map(|s| vec![s]).unwrap_or_default()
OptionToVec(option) == IF option = NoLabel THEN <<>> ELSE <<option[2]>>

reads_pages(opcode) ==
    CASE opcode.name = <<"L", "o", "a", "d">> ->
                <<FieldOf(opcode, <<"p", "a", "g", "e", "_", "i", "d">>)>>
      [] opcode.name = <<"C", "o", "p", "y">> -> <<FieldOf(opcode, <<"s", "r", "c">>)>>
      [] opcode.name = <<"I", "n", "f", "e", "r">> ->
                  FieldOf(opcode, <<"c", "o", "n", "t", "e", "x", "t">>)
      [] opcode.name = <<"S", "u", "m", "m", "a", "r", "i", "z", "e">> ->
                  FieldOf(opcode, <<"p", "a", "g", "e", "s">>)
      [] opcode.name = <<"C", "h", "u", "n", "k">> ->
                  <<FieldOf(opcode, <<"s", "o", "u", "r", "c", "e">>)>>
      [] opcode.name = <<"M", "e", "r", "g", "e">> ->
                  FieldOf(opcode, <<"p", "a", "g", "e", "s">>)
      [] opcode.name = <<"P", "u", "s", "h", "P", "a", "g", "e">> ->
                  <<FieldOf(opcode, <<"p", "a", "g", "e", "_", "i", "d">>)>>
      [] OTHER -> <<>>

writes_pages(opcode) ==
    CASE opcode.name = <<"S", "t", "o", "r", "e">> ->
                <<FieldOf(opcode, <<"p", "a", "g", "e", "_", "i", "d">>)>>
      [] opcode.name = <<"A", "l", "l", "o", "c">> ->
                  OptionToVec(FieldOf(opcode, <<"l", "a", "b", "e", "l">>))
      [] opcode.name = <<"C", "o", "p", "y">> -> <<FieldOf(opcode, <<"d", "s", "t">>)>>
      [] opcode.name = <<"S", "y", "s", "c", "a", "l", "l">> ->
                  OptionToVec(FieldOf(opcode, <<"s", "t", "o", "r", "e", "_", "t", "o">>))
      [] opcode.name \in {<<"I", "n", "f", "e", "r">>,
                          <<"S", "u", "m", "m", "a", "r", "i", "z", "e">>,
                          <<"M", "e", "r", "g", "e">>, <<"R", "e", "c", "v">>,
                          <<"G", "e", "t", "R", "e", "g">>, <<"P", "o", "p", "T", "o">>,
                          <<"P", "e", "e", "k">>, <<"P", "e", "e", "k", "A", "t">>,
                          <<"D", "e", "p", "t", "h">>} ->
                  <<FieldOf(opcode, <<"s", "t", "o", "r", "e", "_", "t", "o">>)>>
      [] OTHER -> <<>>

PageSamples(field) ==
    CASE field.type = "String" -> {field.key}
      [] field.type = "OptString" -> {NoLabel, Some(field.key)}
      [] field.type = "VecString" -> {<<>>, <<field.key \o <<"1">>, field.key \o <<"2">>>>}
      [] OTHER -> {CHOOSE sample \in Samples(field.type) : TRUE}

RECURSIVE PageFieldValues(_)
PageFieldValues(fields) ==
    IF fields = <<>> THEN {<<>>}
    ELSE {<<first>> \o rest : first \in PageSamples(Head(fields)),
                              rest \in PageFieldValues(Tail(fields))}

PageOpcodes ==
    UNION {{[name |-> v, values |-> f] : f \in PageFieldValues(OpcodeFields[v])} :
              v \in DOMAIN OpcodeFields}

InitPages ==
    /\ call \in {[fn |-> "none", arg |-> opcode, ret |-> <<>>] : opcode \in PageOpcodes}
    /\ SessionIdle
    /\ StorageIdle
    /\ CliIdle
    /\ AgentIdle
    /\ SessIdle
    /\ StackIdle
    /\ MemIdle
    /\ EnvIdle

ReadsPages ==
    /\ call' = [fn |-> "reads_pages", arg |-> call.arg, ret |-> reads_pages(call.arg)]
    /\ WireFrame

WritesPages ==
    /\ call' = [fn |-> "writes_pages", arg |-> call.arg, ret |-> writes_pages(call.arg)]
    /\ WireFrame

NextPages == ReadsPages \/ WritesPages

SpecPages == InitPages /\ [][NextPages]_vars

(***************************************************************************)
(* C40: for every opcode, writes_pages() is exactly the pages the opcode   *)
(* deposits a result in (the store_to of every variant that has one,       *)
(* READ_FILE, WRITE_FILE, LIST_DIR, EXEC, GREP, PLAN and REFLECT included, *)
(* the page_id of STORE and the dst of COPY), and reads_pages() exactly    *)
(* the pages it consults (the context pages of PLAN as of INFER, the       *)
(* page_id of LOAD and PUSH_PAGE, the src of COPY, the pages of SUMMARIZE  *)
(* and MERGE, the source of CHUNK).                                        *)
(***************************************************************************)
Ids(pages) == {pages[i] : i \in 1..Len(pages)}

Deposits(opcode) ==
    CASE opcode.name = <<"S", "t", "o", "r", "e">> ->
                {FieldOf(opcode, <<"p", "a", "g", "e", "_", "i", "d">>)}
      [] opcode.name = <<"C", "o", "p", "y">> -> {FieldOf(opcode, <<"d", "s", "t">>)}
      [] HasField(opcode.name, <<"s", "t", "o", "r", "e", "_", "t", "o">>) ->
            IF opcode.name \in {<<"S", "y", "s", "c", "a", "l", "l">>,
                    <<"W", "r", "i", "t", "e", "F", "i", "l", "e">>}
            THEN Ids(OptionToVec(FieldOf(opcode, <<"s", "t", "o", "r", "e", "_", "t", "o">>)))
            ELSE {FieldOf(opcode, <<"s", "t", "o", "r", "e", "_", "t", "o">>)}
      [] OTHER -> {}

Consults(opcode) ==
    CASE opcode.name \in {<<"L", "o", "a", "d">>,
            <<"P", "u", "s", "h", "P", "a", "g", "e">>} ->
                {FieldOf(opcode, <<"p", "a", "g", "e", "_", "i", "d">>)}
      [] opcode.name = <<"C", "o", "p", "y">> -> {FieldOf(opcode, <<"s", "r", "c">>)}
      [] opcode.name \in {<<"I", "n", "f", "e", "r">>,
              <<"P", "l", "a", "n">>} ->
                  Ids(FieldOf(opcode, <<"c", "o", "n", "t", "e", "x", "t">>))
      [] opcode.name \in {<<"S", "u", "m", "m", "a", "r", "i", "z", "e">>,
              <<"M", "e", "r", "g", "e">>} -> Ids(FieldOf(opcode, <<"p", "a", "g", "e", "s">>))
      [] opcode.name = <<"C", "h", "u", "n", "k">> ->
                  {FieldOf(opcode, <<"s", "o", "u", "r", "c", "e">>)}
      [] OTHER -> {}

ReadsAndWrites ==
    /\ call.fn = "writes_pages" => Ids(call.ret) = Deposits(call.arg)
    /\ call.fn = "reads_pages" => Ids(call.ret) = Consults(call.arg)

C40_ReadsAndWrites == ReadsAndWrites

\* The variants the two functions leave out, and ALLOC, whose label
\* writes_pages returns.
Unlisted == {<<"R", "e", "a", "d", "F", "i", "l", "e">>,
        <<"W", "r", "i", "t", "e", "F", "i", "l", "e">>, <<"L", "i", "s", "t", "D", "i", "r">>,
        <<"E", "x", "e", "c">>, <<"G", "r", "e", "p">>, <<"P", "l", "a", "n">>,
        <<"R", "e", "f", "l", "e", "c", "t">>, <<"A", "l", "l", "o", "c">>}

C40_ReadsAndWritesOfListed == call.arg.name \notin Unlisted => ReadsAndWrites

====
